---- MODULE Spec2Model ----
(***************************************************************************)
(* A model of enoti, the notification-shaping gateway: the DataStore       *)
(* backends (DynamoDB and Redis), the edge/flap engine and the request     *)
(* pipeline with its transport handler.                                    *)
(*                                                                         *)
(* Every backend round trip is one atomic step; code between two round     *)
(* trips is local to the request and is folded into the step that follows  *)
(* it.  The Redis backend issues several commands per call, so its calls   *)
(* take several steps; the DynamoDB backend issues one conditional write.  *)
(***************************************************************************)
EXTENDS Integers, Sequences, FiniteSets, TLC

VARIABLES
    backend,   \* "ddb" or "redis": the DataStore chosen by DataBackendFromEnv
    seq,       \* TRUE when requests are processed one after another
    scn,       \* the deployment under check: its name in Fixtures
    cfg,       \* ConfigStore: tenant -> ClientConfig (absent = not in DOMAIN)
    cfgCache,  \* the process's TTL cache: tenant -> entry (val, exp)
    now,       \* the clock, unix seconds
    edges,     \* (tenant, scope_key) -> stored Edge item (absent = not in DOMAIN)
    buckets,   \* (scope, epoch minute) -> count (absent = not in DOMAIN)
    pc,        \* per task: its position
    call,      \* per task: the DataStore call in flight (arguments and values read)
    res,       \* per task: the result of its last finished call or request
    grants,    \* history: (scope, epoch minute) -> number of granted Acquire calls
    nops,      \* history: number of calls / requests started
    hist,      \* history of the requests: observations, values and aggregates so far
    published  \* the publisher's log: the PublishRaw calls, in order

vars == <<backend, seq, scn, cfg, cfgCache, now, edges, buckets, pc, call, res, grants, nops,
          hist, published>>

env == <<backend, seq, scn, cfg, cfgCache>>

----------------------------------------------------------------------------
(* Bounds of the model *)

CacheHorizon == 460 \* the clock of the cache specification stops here
MaxOps == 4         \* DataStore calls started in the store specification
MaxStoreNow == 60   \* the store specification's clock stops here
MaxReqs == 4        \* requests started, one after the other
LongReqs == 6       \* the same, for the deployments whose clock stops early
MaxConcReqs == 3    \* requests started, when they may overlap
MaxNow == 13        \* the clock of the deployments with a flap window stops here
ShortNow == 2       \* the clock of the other deployments stops here

Procs == {"p1", "p2"}
Backends == {"ddb", "redis"}

----------------------------------------------------------------------------
(* types.Edge and types.Flip *)

Values == {"a", "b"}

MkEdge(lastValue, ts) ==
    [ScopeKey |-> "", LastValue |-> lastValue, LastChangeTS |-> ts,
     WindowStart |-> ts, FlipCount |-> 0, Recent |-> <<>>,
     AggUntilTS |-> 0, Version |-> 0]

NilEdge == MkEdge("", 0)

Put(f, k, v) == (k :> v) @@ f

----------------------------------------------------------------------------
(* DynamoDB DataStore: one conditional request per call *)

DdbLoad(es, k) ==
    IF k \notin DOMAIN es
      THEN [found |-> FALSE, edge |-> NilEdge, ver |-> 0]
      ELSE [found |-> TRUE, edge |-> es[k], ver |-> es[k].Version]

\* ConditionExpression of the create path: attribute_not_exists(PK) AND attribute_not_exists(SK)
DdbCreateCondition(es, k) == k \notin DOMAIN es

\* ConditionExpression of the update path: #ver = :prev
DdbUpdateCondition(es, k, prevVersion) ==
    k \in DOMAIN es /\ es[k].Version = prevVersion

DdbUpsertCAS(es, k, prevVersion, next) ==
    IF prevVersion = 0
      THEN IF DdbCreateCondition(es, k)
             THEN [ok |-> TRUE,
                   es |-> Put(es, k, [next EXCEPT !.ScopeKey = k[2], !.Version = 1])]
             ELSE [ok |-> FALSE, es |-> es]
      ELSE IF DdbUpdateCondition(es, k, prevVersion)
             THEN [ok |-> TRUE,
                   es |-> [es EXCEPT ![k] = [next EXCEPT !.ScopeKey = es[k].ScopeKey,
                                                         !.Version = prevVersion + 1]]]
             ELSE [ok |-> FALSE, es |-> es]

EpochMin(t) == t \div 60

BucketKey(scope, t) == <<scope, EpochMin(t)>>

\* A limiter that admits one call too many; C4 does not hold of it
DdbAcquireConditionOffByOne(bs, bk, ratePerWindow) ==
    bk \notin DOMAIN bs \/ bs[bk] <= ratePerWindow

\* ConditionExpression of Acquire: attribute_not_exists(#count) OR #count < :cap
DdbAcquireCondition(bs, bk, ratePerWindow) ==
    bk \notin DOMAIN bs \/ bs[bk] < ratePerWindow

\* a limiter that counts the calls it denies as well; C33 does not hold of it
DdbAcquireCountsDenied(bs, scope, ratePerWindow, t) ==
    LET bk == BucketKey(scope, t) IN
    IF ratePerWindow <= 0
      THEN [ok |-> FALSE, bs |-> bs]
      ELSE [ok |-> DdbAcquireCondition(bs, bk, ratePerWindow),
            bs |-> Put(bs, bk, IF bk \in DOMAIN bs THEN bs[bk] + 1 ELSE 1)]

DdbAcquire(bs, scope, ratePerWindow, t) ==
    LET bk == BucketKey(scope, t) IN
    IF ratePerWindow <= 0
      THEN [ok |-> FALSE, bs |-> bs]
      ELSE IF DdbAcquireCondition(bs, bk, ratePerWindow)
             THEN [ok |-> TRUE,
                   bs |-> Put(bs, bk, IF bk \in DOMAIN bs THEN bs[bk] + 1 ELSE 1)]
             ELSE [ok |-> FALSE, bs |-> bs]

----------------------------------------------------------------------------
(* Redis DataStore: plain commands, several per call *)

\* HGetAll and the field parsing; the scope key is the argument, ver is returned apart
RedisLoad(es, k) ==
    IF k \notin DOMAIN es
      THEN [found |-> FALSE, edge |-> NilEdge, ver |-> 0]
      ELSE [found |-> TRUE,
            edge |-> [es[k] EXCEPT !.ScopeKey = k[2], !.Version = 0],
            ver |-> es[k].Version]

\* a create that stores an empty scope_key; C37 does not hold of it
RedisCreateNoScopeKey(es, k, next) ==
    Put(es, k, [next EXCEPT !.ScopeKey = <<>>, !.Version = 1])

\* the Redis key of an edge state: Sprintf("_enoti_data_%s_s%s", clientID, scopeKey)
getDataKeyName(clientID, scopeKey) ==
    <<"_enoti_data_">> \o clientID \o <<"_s">> \o scopeKey

\* the DynamoDB key of an edge state: PK "CLIENT#" clientID, SK "EDGE#" scopeKey
DdbEdgeKey(clientID, scopeKey) ==
    [PK |-> <<"CLIENT", "#">> \o clientID, SK |-> <<"EDGE", "#">> \o scopeKey]

\* prevVersion == 0: HMSet of all the fields, with ver = 1
RedisCreate(es, k, next) ==
    Put(es, k, [next EXCEPT !.ScopeKey = k[2], !.Version = 1])

\* HMGet key "ver": 0 stands for a missing key or field
RedisReadVer(es, k) == IF k \in DOMAIN es THEN es[k].Version ELSE 0

\* the check between the two commands: the call goes on to HMSet
RedisVersionMatches(currenVersion, prevVersion) ==
    currenVersion # 0 /\ currenVersion = prevVersion

\* HMSet of the fields (not scope_key) with ver = currenVersion + 1
RedisWrite(es, k, currenVersion, next) ==
    LET sk == IF k \in DOMAIN es THEN es[k].ScopeKey ELSE "" IN
    Put(es, k, [next EXCEPT !.ScopeKey = sk, !.Version = currenVersion + 1])

\* HGet key "count": "nil" (redis.Nil), or the count
RedisReadCount(bs, bk) ==
    IF bk \in DOMAIN bs THEN [nil |-> FALSE, count |-> bs[bk]]
                        ELSE [nil |-> TRUE, count |-> 0]

\* the check between HGet and HIncrBy: TRUE when the call goes on to increment
RedisUnderCapacity(rd, ratePerWindow) ==
    rd.nil \/ ~(rd.count >= ratePerWindow)

\* strings as sequences of characters, and %d
Digit(n) == CASE n = 0 -> "0" [] n = 1 -> "1" [] n = 2 -> "2" [] n = 3 -> "3"
              [] n = 4 -> "4" [] n = 5 -> "5" [] n = 6 -> "6" [] n = 7 -> "7"
              [] n = 8 -> "8" [] n = 9 -> "9"

RECURSIVE Decimal(_)
Decimal(n) == IF n < 10 THEN <<Digit(n)>>
              ELSE Decimal(n \div 10) \o <<Digit(n % 10)>>

\* the Redis key of a bucket: Sprintf("_enoti_rwin_%s_%d", key, epochMin)
getWindowKeyName(key, epochMin) ==
    <<"_enoti_rwin_">> \o key \o <<"_">> \o Decimal(epochMin)

\* the DynamoDB key of a bucket: PK "RATE#" scope, SK "WIN#" epochMin
DdbRateKey(scope, epochMin) ==
    [PK |-> <<"RATE", "#">> \o scope, SK |-> <<"WIN", "#">> \o Decimal(epochMin)]

\* HIncrBy key "count" 1 (creates the field at 0 first)
RedisIncr(bs, bk) == Put(bs, bk, IF bk \in DOMAIN bs THEN bs[bk] + 1 ELSE 1)

----------------------------------------------------------------------------
(* The DataStore specification: tasks call Load, UpsertCAS and Acquire      *)
(* directly, with any arguments, in any interleaving.                       *)

StoreTenants == {"t1"}
StoreScopeKeys == {"s1", "s2"}
StoreKeys == StoreTenants \X StoreScopeKeys
StorePrevVersions == 0 .. 2
\* (scope, ratePerWindow) pairs of the Acquire calls: one capacity per scope
StoreLimits == {<<"x0", 0>>, <<"x1", 1>>, <<"x2", 2>>}
StoreCap(scope) == (CHOOSE l \in StoreLimits : l[1] = scope)[2]

NoCall == [op |-> "none"]
NoHist == [obs |-> <<>>, vals |-> <<>>, deadline |-> <<>>, win |-> <<>>,
           changed |-> <<>>, cached |-> <<>>, sent |-> <<>>]
NoRes == [op |-> "none"]

Bump(g, bk) == Put(g, bk, IF bk \in DOMAIN g THEN g[bk] + 1 ELSE 1)

InitStore ==
    /\ backend \in Backends
    /\ seq = FALSE
    /\ scn = "store"
    /\ cfg = <<>>
    /\ cfgCache = <<>>
    /\ now = 0
    /\ edges = <<>>
    /\ buckets = <<>>
    /\ pc = [p \in Procs |-> "idle"]
    /\ call = [p \in Procs |-> NoCall]
    /\ res = [p \in Procs |-> NoRes]
    /\ grants = <<>>
    /\ nops = 0
    /\ hist = NoHist
    /\ published = <<>>

\* Load: one read in both backends
StoreLoad(p, k) ==
    /\ pc[p] = "idle" /\ nops < MaxOps
    /\ LET r == IF backend = "ddb" THEN DdbLoad(edges, k) ELSE RedisLoad(edges, k) IN
       res' = [res EXCEPT ![p] = [op |-> "Load", key |-> k, found |-> r.found,
                                  ver |-> r.ver, value |-> r.edge.LastValue]]
    /\ nops' = nops + 1
    /\ UNCHANGED <<env, now, edges, buckets, pc, call, grants, hist, published>>

\* The result of an UpsertCAS call, with what the store held when the call wrote
\* (or declined to): existed and verAtWrite are read just before the write, and
\* kept says that the call left the stored items as they were.
CasRes(k, prevVersion, ok, es, esAfter) ==
    [op |-> "UpsertCAS", key |-> k, prev |-> prevVersion, ok |-> ok,
     existed |-> k \in DOMAIN es,
     verAtWrite |-> IF k \in DOMAIN es THEN es[k].Version ELSE 0,
     verAfter |-> IF k \in DOMAIN esAfter THEN esAfter[k].Version ELSE 0,
     kept |-> esAfter = es]

\* UpsertCAS, first (for DynamoDB and for the Redis create path: only) command
StoreUpsertCAS(p, k, prevVersion, next) ==
    /\ pc[p] = "idle" /\ nops < MaxOps
    /\ nops' = nops + 1
    /\ IF backend = "ddb"
         THEN LET r == DdbUpsertCAS(edges, k, prevVersion, next) IN
              /\ edges' = r.es
              /\ res' = [res EXCEPT ![p] = CasRes(k, prevVersion, r.ok, edges, r.es)]
              /\ UNCHANGED <<pc, call>>
         ELSE IF prevVersion = 0
           THEN /\ edges' = RedisCreate(edges, k, next)
                /\ res' = [res EXCEPT ![p] = CasRes(k, prevVersion, TRUE, edges, RedisCreate(edges, k, next))]
                /\ UNCHANGED <<pc, call>>
           ELSE LET cur == RedisReadVer(edges, k) IN
                IF RedisVersionMatches(cur, prevVersion)
                  THEN /\ pc' = [pc EXCEPT ![p] = "casWrite"]
                       /\ call' = [call EXCEPT ![p] =
                               [op |-> "UpsertCAS", key |-> k, prev |-> prevVersion,
                                next |-> next, cur |-> cur]]
                       /\ UNCHANGED <<edges, res>>
                  ELSE /\ res' = [res EXCEPT ![p] =
                               CasRes(k, prevVersion, FALSE, edges, edges)]
                       /\ UNCHANGED <<edges, pc, call>>
    /\ UNCHANGED <<env, now, buckets, grants, hist, published>>

\* UpsertCAS on Redis, second command: the HMSet
StoreCasWrite(p) ==
    /\ pc[p] = "casWrite"
    /\ LET c == call[p] IN
       /\ edges' = RedisWrite(edges, c.key, c.cur, c.next)
       /\ res' = [res EXCEPT ![p] = CasRes(c.key, c.prev, TRUE, edges,
                                           RedisWrite(edges, c.key, c.cur, c.next))]
    /\ pc' = [pc EXCEPT ![p] = "idle"]
    /\ call' = [call EXCEPT ![p] = NoCall]
    /\ UNCHANGED <<env, now, buckets, grants, nops, hist, published>>

AcqRes(scope, ratePerWindow, bk, ok) ==
    [op |-> "Acquire", scope |-> scope, cap |-> ratePerWindow, bk |-> bk, ok |-> ok]

\* Acquire, first (for DynamoDB: only) command
StoreAcquire(p, scope, ratePerWindow) ==
    /\ pc[p] = "idle" /\ nops < MaxOps
    /\ nops' = nops + 1
    /\ LET bk == BucketKey(scope, now) IN
       IF backend = "ddb"
         THEN LET r == DdbAcquire(buckets, scope, ratePerWindow, now) IN
              /\ buckets' = r.bs
              /\ grants' = IF r.ok THEN Bump(grants, bk) ELSE grants
              /\ res' = [res EXCEPT ![p] = AcqRes(scope, ratePerWindow, bk, r.ok)]
              /\ UNCHANGED <<pc, call>>
         ELSE IF ratePerWindow <= 0
           THEN /\ res' = [res EXCEPT ![p] = AcqRes(scope, ratePerWindow, bk, FALSE)]
                /\ UNCHANGED <<buckets, grants, pc, call>>
           ELSE LET rd == RedisReadCount(buckets, bk) IN
                IF RedisUnderCapacity(rd, ratePerWindow)
                  THEN /\ pc' = [pc EXCEPT ![p] = "acqIncr"]
                       /\ call' = [call EXCEPT ![p] =
                               [op |-> "Acquire", scope |-> scope,
                                cap |-> ratePerWindow, bk |-> bk]]
                       /\ UNCHANGED <<buckets, grants, res>>
                  ELSE /\ res' = [res EXCEPT ![p] =
                               AcqRes(scope, ratePerWindow, bk, FALSE)]
                       /\ UNCHANGED <<buckets, grants, pc, call>>
    /\ UNCHANGED <<env, now, edges, hist, published>>

\* Acquire on Redis, second command: the HIncrBy (and, for a new key, Expire)
StoreAcqIncr(p) ==
    /\ pc[p] = "acqIncr"
    /\ LET c == call[p] IN
       /\ buckets' = RedisIncr(buckets, c.bk)
       /\ grants' = Bump(grants, c.bk)
       /\ res' = [res EXCEPT ![p] = AcqRes(c.scope, c.cap, c.bk, TRUE)]
    /\ pc' = [pc EXCEPT ![p] = "idle"]
    /\ call' = [call EXCEPT ![p] = NoCall]
    /\ UNCHANGED <<env, now, edges, nops, hist, published>>

\* the wall clock moves on by half a minute
StoreTick ==
    /\ now + 30 <= MaxStoreNow
    /\ now' = now + 30
    /\ UNCHANGED <<env, edges, buckets, pc, call, res, grants, nops, hist, published>>

NextStore ==
    \/ \E p \in Procs, k \in StoreKeys : StoreLoad(p, k)
    \/ \E p \in Procs, k \in StoreKeys, pv \in StorePrevVersions, v \in Values :
          StoreUpsertCAS(p, k, pv, MkEdge(v, 0))
    \/ \E p \in Procs : StoreCasWrite(p)
    \/ \E p \in Procs, l \in StoreLimits : StoreAcquire(p, l[1], l[2])
    \/ \E p \in Procs : StoreAcqIncr(p)
    \/ StoreTick

SpecStore == InitStore /\ [][NextStore]_vars

----------------------------------------------------------------------------
(* The two DataStores side by side: one caller makes the same calls, one     *)
(* after the other, on a DynamoDB store and on a Redis store with the same   *)
(* clock; edges and buckets hold one store per backend.                      *)

\* the Redis UpsertCAS with nothing between its commands
RedisUpsertCAS(es, k, prevVersion, next) ==
    IF prevVersion = 0
      THEN [ok |-> TRUE, es |-> RedisCreate(es, k, next)]
      ELSE LET cur == RedisReadVer(es, k) IN
           IF RedisVersionMatches(cur, prevVersion)
             THEN [ok |-> TRUE, es |-> RedisWrite(es, k, cur, next)]
             ELSE [ok |-> FALSE, es |-> es]

\* the Redis Acquire with nothing between its commands
RedisAcquire(bs, scope, ratePerWindow, t) ==
    LET bk == BucketKey(scope, t)
        rd == RedisReadCount(bs, bk)
    IN IF ratePerWindow <= 0 THEN [ok |-> FALSE, bs |-> bs]
       ELSE IF RedisUnderCapacity(rd, ratePerWindow)
         THEN [ok |-> TRUE, bs |-> RedisIncr(bs, bk)]
         ELSE [ok |-> FALSE, bs |-> bs]

\* what Load hands to its caller
LoadRes(r) == [found |-> r.found, state |-> r.edge, ver |-> r.ver]

\* the calls so far: recreated says that some UpsertCAS with prevVersion 0 met
\* a record that existed
NoCalls == [op |-> "calls", recreated |-> FALSE]

InitBoth ==
    /\ backend = "both"
    /\ seq = TRUE
    /\ scn = "store"
    /\ cfg = <<>>
    /\ cfgCache = <<>>
    /\ now = 0
    /\ edges = [b \in Backends |-> <<>>]
    /\ buckets = [b \in Backends |-> <<>>]
    /\ pc = [p \in Procs |-> "idle"]
    /\ call = [p \in Procs |-> NoCall]
    /\ res = [p \in Procs |-> IF p = "p1" THEN NoRes ELSE NoCalls]
    /\ grants = <<>>
    /\ nops = 0
    /\ hist = NoHist
    /\ published = <<>>

BothLoad(k) ==
    /\ nops < MaxOps
    /\ nops' = nops + 1
    /\ res' = [res EXCEPT !["p1"] =
                  [op |-> "Load", key |-> k,
                   ddb |-> LoadRes(DdbLoad(edges["ddb"], k)),
                   redis |-> LoadRes(RedisLoad(edges["redis"], k))]]
    /\ UNCHANGED <<env, now, edges, buckets, pc, call, grants, hist, published>>

BothUpsertCAS(k, prevVersion, next) ==
    /\ nops < MaxOps
    /\ nops' = nops + 1
    /\ LET d == DdbUpsertCAS(edges["ddb"], k, prevVersion, next)
           r == RedisUpsertCAS(edges["redis"], k, prevVersion, next)
       IN /\ edges' = [ddb |-> d.es, redis |-> r.es]
          /\ res' = [res EXCEPT
                       !["p1"] = [op |-> "UpsertCAS", key |-> k, prev |-> prevVersion,
                                  ddb |-> d.ok, redis |-> r.ok],
                       !["p2"].recreated =
                           @ \/ (prevVersion = 0 /\ k \in DOMAIN edges["ddb"])]
    /\ UNCHANGED <<env, now, buckets, pc, call, grants, hist, published>>

BothAcquire(scope, ratePerWindow) ==
    /\ nops < MaxOps
    /\ nops' = nops + 1
    /\ LET d == DdbAcquire(buckets["ddb"], scope, ratePerWindow, now)
           r == RedisAcquire(buckets["redis"], scope, ratePerWindow, now)
       IN /\ buckets' = [ddb |-> d.bs, redis |-> r.bs]
          /\ res' = [res EXCEPT !["p1"] =
                        [op |-> "Acquire", scope |-> scope, cap |-> ratePerWindow,
                         ddb |-> d.ok, redis |-> r.ok]]
    /\ UNCHANGED <<env, now, edges, pc, call, grants, hist, published>>

NextBoth ==
    \/ \E k \in StoreKeys : BothLoad(k)
    \/ \E k \in StoreKeys, pv \in StorePrevVersions, v \in Values :
          BothUpsertCAS(k, pv, MkEdge(v, now))
    \/ \E l \in StoreLimits : BothAcquire(l[1], l[2])
    \/ StoreTick

SpecBoth == InitBoth /\ [][NextBoth]_vars

----------------------------------------------------------------------------
(* flow: actions, the expression evaluator, pass-through *)

NoOp == "NoOp"
SuppressFlapping == "SuppressFlapping"
SuppressDedup == "SuppressDedup"
EdgeTriggeredForward == "EdgeTriggeredForward"
ForwardedAsIs == "ForwardedAsIs"
AggregateSent == "AggregateSent"

StatusAccepted == 202
StatusBadRequest == 400
StatusUnauthorized == 401
StatusTooManyRequests == 429
StatusInternalServerError == 500

HardLimitRecentItems == 128

\* decoded JSON values: null, a boolean, a string (v is the JSON text of the value)
JNull == [t |-> "null", v |-> "null"]
JBool(b) == [t |-> "bool", v |-> IF b THEN "true" ELSE "false"]
JStr(s) == [t |-> "str", v |-> s]

\* jmespath.Search, as far as the expressions of the fixtures go: a field
\* selection yields the field (null when it is missing), "(" does not parse
EvalAny(expression, payload) ==
    CASE expression = "event.type" -> [err |-> FALSE, v |-> payload.type]
      [] expression = "flag"       -> [err |-> FALSE, v |-> payload.flag]
      [] OTHER                     -> [err |-> TRUE, v |-> JNull]

\* an evaluation that JSON-encodes null like any other value; C30 does not hold
\* of it
EvalStringEncodesNull(expression, payload) ==
    LET r == EvalAny(expression, payload) IN
    IF r.err THEN [err |-> TRUE, nil |-> TRUE, s |-> ""]
    ELSE [err |-> FALSE, nil |-> FALSE, s |-> r.v.v]

\* a string as it is, any other value JSON-encoded, null as no value
EvalString(expression, payload) ==
    LET r == EvalAny(expression, payload) IN
    IF r.err THEN [err |-> TRUE, nil |-> TRUE, s |-> ""]
    ELSE IF r.v.t = "null" THEN [err |-> FALSE, nil |-> TRUE, s |-> ""]
    ELSE [err |-> FALSE, nil |-> FALSE, s |-> r.v.v]

\* a pass-through rule that forgets negate; C9 does not hold of it
CheckPassthroughNoNegate(passthroughCfg, payload) ==
    LET match == EvalAny(passthroughCfg.FieldExpr, payload) IN
    /\ passthroughCfg.FieldExpr # "" /\ ~match.err /\ match.v.t = "bool"
    /\ match.v.v = "true"

CheckPassthrough(passthroughCfg, payload) ==
    IF passthroughCfg.FieldExpr = "" THEN FALSE
    ELSE LET match == EvalAny(passthroughCfg.FieldExpr, payload) IN
         IF match.err THEN FALSE
         ELSE IF match.v.t # "bool" THEN FALSE
         ELSE IF passthroughCfg.Negate THEN ~(match.v.v = "true")
         ELSE match.v.v = "true"

\* FNV-1a of the expression, as "e" + decimal: a fingerprint, one per expression
ComputeKey(s) == <<"e", s>>

\* JSON, zstd, base64url and back
EncodePayload(d) == [z |-> d]
DecodePayload(in) == in.z

----------------------------------------------------------------------------
(* flow.EvaluateEdgeAndFlap: the decision between Load and UpsertCAS *)

NoFlap == [nil |-> TRUE]
NoAggregate == [type |-> "nil"]

\* a buffer that, once full, keeps its oldest entries; C31 does not hold of it
AppendRecentKeepsOldest(rs, f, cap) ==
    LET r == Append(rs, f) IN
    IF Len(r) > cap THEN SubSeq(r, 1, cap) ELSE r

AppendRecent(rs, f, cap) ==
    LET r == Append(rs, f) IN
    IF Len(r) > cap THEN SubSeq(r, Len(r) - cap + 1, Len(r)) ELSE r

\* an engine that takes every observation for a change; C1 does not hold of it
IsStableNever(edgeInfo, newVal) == FALSE

\* an engine that takes a repeated value for a change once flips were counted;
\* C29 does not hold of it
IsStableOnlyFresh(edgeInfo, newVal) ==
    edgeInfo.LastValue = newVal /\ edgeInfo.FlipCount = 0

IsStable(edgeInfo, newVal) == edgeInfo.LastValue = newVal

\* a window that rolls already when now - window_start = window_seconds; C12
\* does not hold of it
RollsWindowAtEquality(f, t, edgeInfo) ==
    f.WindowSeconds > 0 /\ t - edgeInfo.WindowStart >= f.WindowSeconds

RollsWindow(f, t, edgeInfo) ==
    f.WindowSeconds > 0 /\ t - edgeInfo.WindowStart > f.WindowSeconds

\* a tolerance that ends one flip early; C13 does not hold of it
SuppressedBelowStrict(f, edgeInfo) == edgeInfo.FlipCount < f.SuppressBelow

SuppressedBelow(f, edgeInfo) == edgeInfo.FlipCount <= f.SuppressBelow

\* an aggregate condition without the cooldown; C10 does not hold of it
AggregateDueNoCooldown(f, edgeInfo, t) ==
    /\ edgeInfo.FlipCount >= f.AggregateAt
    /\ Len(edgeInfo.Recent) >= f.AggregateAt

AggregateDue(f, edgeInfo, t) ==
    /\ edgeInfo.FlipCount >= f.AggregateAt
    /\ t > edgeInfo.AggUntilTS
    /\ Len(edgeInfo.Recent) >= f.AggregateAt

\* an aggregate that lists every recent flip; C15 does not hold of it
BuildAggregateAll(edgeInfo, k) ==
    LET num == Len(edgeInfo.Recent)
        item(it) == [at |-> it.At, from |-> it.From, to |-> it.To,
                     payload |-> DecodePayload(it.Payload)]
    IN [type |-> "flap_aggregate", scope |-> edgeInfo.ScopeKey,
        last_value |-> edgeInfo.LastValue, window_start |-> edgeInfo.WindowStart,
        flip_count |-> edgeInfo.FlipCount,
        recent |-> [i \in 1 .. num |-> item(edgeInfo.Recent[num - i + 1])]]

\* an aggregate that lists its flips in the stored order; C32, as amended,
\* does not hold of it
BuildAggregateStoredOrder(edgeInfo, k) ==
    LET num == Len(edgeInfo.Recent)
        kk == IF k > num THEN num ELSE k
        item(it) == [at |-> it.At, from |-> it.From, to |-> it.To,
                     payload |-> DecodePayload(it.Payload)]
        items == IF k > 0 /\ num > 0
                   THEN [i \in 1 .. kk |-> item(edgeInfo.Recent[num - kk + i])]
                   ELSE <<>>
    IN [type |-> "flap_aggregate", scope |-> edgeInfo.ScopeKey,
        last_value |-> edgeInfo.LastValue, window_start |-> edgeInfo.WindowStart,
        flip_count |-> edgeInfo.FlipCount, recent |-> items]

BuildAggregate(edgeInfo, k) ==
    LET num == Len(edgeInfo.Recent)
        kk == IF k > num THEN num ELSE k
        item(it) == [at |-> it.At, from |-> it.From, to |-> it.To,
                     payload |-> DecodePayload(it.Payload)]
        items == IF k > 0 /\ num > 0
                   THEN [i \in 1 .. kk |-> item(edgeInfo.Recent[num - i + 1])]
                   ELSE <<>>
    IN [type |-> "flap_aggregate", scope |-> edgeInfo.ScopeKey,
        last_value |-> edgeInfo.LastValue, window_start |-> edgeInfo.WindowStart,
        flip_count |-> edgeInfo.FlipCount, recent |-> items]

\* a new window that goes on counting from the old one; C14 does not hold of it
CountFlipAcrossWindows(edgeInfo, newWindow, t) ==
    IF newWindow
      THEN [edgeInfo EXCEPT !.WindowStart = t, !.FlipCount = @ + 1,
                            !.Recent = IF Len(@) > 0
                                         THEN SubSeq(@, Len(@), Len(@))
                                         ELSE @]
      ELSE [edgeInfo EXCEPT !.FlipCount = @ + 1]

\* a new window that keeps the whole buffer; C38 does not hold of it
CountFlipKeepsRecent(edgeInfo, newWindow, t) ==
    IF newWindow
      THEN [edgeInfo EXCEPT !.WindowStart = t, !.FlipCount = 1]
      ELSE [edgeInfo EXCEPT !.FlipCount = @ + 1]

\* the flip counted: the first of a new window, or one more of the window
CountFlip(edgeInfo, newWindow, t) ==
    IF newWindow
      THEN [edgeInfo EXCEPT !.WindowStart = t, !.FlipCount = 1,
                            !.Recent = IF Len(@) > 0
                                         THEN SubSeq(@, Len(@), Len(@))
                                         ELSE @]
      ELSE [edgeInfo EXCEPT !.FlipCount = @ + 1]

\* a flip that is recorded while last_value stays; C17 does not hold of it
FlipObservedKeepsValue(edgeInfo, newVal, payload, t) ==
    LET flip == [At |-> t, From |-> edgeInfo.LastValue, To |-> newVal,
                 Payload |-> EncodePayload(payload)]
    IN [edgeInfo EXCEPT !.Recent = AppendRecent(@, flip, HardLimitRecentItems),
                        !.LastChangeTS = t]

\* the flip observed: recorded in recent, the new value taken
FlipObserved(edgeInfo, newVal, payload, t) ==
    LET flip == [At |-> t, From |-> edgeInfo.LastValue, To |-> newVal,
                 Payload |-> EncodePayload(payload)]
    IN [edgeInfo EXCEPT !.Recent = AppendRecent(@, flip, HardLimitRecentItems),
                        !.LastValue = newVal, !.LastChangeTS = t]

\* an engine that answers NoOp to every lost UpsertCAS; C28 does not hold of it
OnMissAlwaysNoOp(path, onOk) == NoOp

\* an aggregate path that stores the buffer as it is; C36 does not hold of it
TrimRecentKeeps(edgeInfo) == edgeInfo

\* the aggregate path: edgeInfo.Recent = nil
TrimRecent(edgeInfo) == [edgeInfo EXCEPT !.Recent = <<>>]

\* what the engine returns when its UpsertCAS did not commit
OnMiss(path, onOk) ==
    IF path \in {"first", "suppress"} THEN SuppressFlapping ELSE NoOp

Decision(path, write, prev, next, onOk, agg) ==
    [path |-> path, write |-> write, prev |-> prev, next |-> next, onOk |-> onOk,
     onMiss |-> OnMiss(path, onOk), agg |-> agg]

\* ld is what Load returned, t the engine's now
EngineDecide(ld, newVal, f, payload, t) ==
    IF ~ld.found
      THEN Decision("first", TRUE, 0, MkEdge(newVal, t), EdgeTriggeredForward,
                    NoAggregate)
    ELSE IF IsStable(ld.edge, newVal)
      THEN Decision("stable", FALSE, ld.ver, ld.edge, NoOp, NoAggregate)
    ELSE
      LET e1 == FlipObserved(ld.edge, newVal, payload, t) IN
      IF f = NoFlap
        THEN Decision("noflap", TRUE, ld.ver, e1, EdgeTriggeredForward, NoAggregate)
      ELSE
        LET newWindow == RollsWindow(f, t, e1)
            e2 == CountFlip(e1, newWindow, t)
        IN
        IF SuppressedBelow(f, e2)
          THEN Decision("suppress", TRUE, ld.ver, e2, SuppressFlapping, NoAggregate)
        ELSE IF f.AggregateAt > 0 /\ ~newWindow
          THEN IF AggregateDue(f, e2, t)
                 THEN LET e3 == [e2 EXCEPT !.AggUntilTS =
                                               t + f.AggregateCooldownSeconds] IN
                      Decision("aggregate", TRUE, ld.ver, TrimRecent(e3),
                               AggregateSent, BuildAggregate(e3, f.AggregateMaxItems))
                 ELSE Decision("hold", TRUE, ld.ver, e2, SuppressFlapping, NoAggregate)
        ELSE Decision(IF newWindow THEN "roll" ELSE "forward", TRUE, ld.ver, e2,
                      EdgeTriggeredForward, NoAggregate)

----------------------------------------------------------------------------
(* The deployments under check: tenant configurations, as PutConfig stored   *)
(* them, and the requests sent to them.                                      *)

Flap(w, sb, at, mx, cd) ==
    [WindowSeconds |-> w, SuppressBelow |-> sb, AggregateAt |-> at,
     AggregateMaxItems |-> mx, AggregateCooldownSeconds |-> cd]

Config(ipRpm, clientRpm, ptExpr, ptNegate, field, snsRpm, flapping) ==
    [ClientKey |-> "secret01", IPRPM |-> ipRpm, ClientRPM |-> clientRpm,
     Passthrough |-> [FieldExpr |-> ptExpr, Negate |-> ptNegate],
     Trigger |-> [FieldExpr |-> field,
                  Target |-> [SNSArn |-> "arn1", SNSRPM |-> snsRpm],
                  Flapping |-> flapping]]

Tenants == {"t1"}
ClientKeys == {"secret01", "badkey01"}
GoodKey == {"secret01"}
TwoTenants == {"t1", "t3"}
\* the tenant, a tenant that has no configuration, and no tenant_id header
Callers == {"t1", "t2", ""}
CallerKeys == {"secret01", "badkey01", ""}
ClientIPs == {"ip1"}
TypesAB == {JStr("a"), JStr("b")}
TypesABC == {JStr("a"), JStr("b"), JStr("c")}
NoFlag == {JNull}
Flags == {JBool(TRUE), JBool(FALSE), JNull}
TrueFalse == {JBool(TRUE), JBool(FALSE)}

\* a deployment: the tenant's configuration, where the clock stops, how many
\* requests are sent one after the other, and what the requests carry
Deploy(cc, horizon, reqs, types, flags, tenants, keys) ==
    [cfg |-> cc, horizon |-> horizon, reqs |-> reqs, types |-> types,
     flags |-> flags, tenants |-> tenants, keys |-> keys]

Fixture(name) ==
    CASE name = "edge" ->
           Deploy(Config(0, 3, "", FALSE, "event.type", 1, NoFlap),
                  ShortNow, MaxReqs, TypesAB, NoFlag, Tenants, ClientKeys)
      [] name = "iplimit" ->
           Deploy(Config(2, 0, "", FALSE, "event.type", 0, NoFlap),
                  ShortNow, MaxReqs, TypesAB \cup {JNull}, NoFlag, Tenants, GoodKey)
      [] name = "novalue" ->
           Deploy(Config(0, 0, "", FALSE, "event.type", 1, NoFlap),
                  ShortNow, MaxReqs, TypesAB \cup {JNull}, NoFlag, Tenants, GoodKey)
      [] name = "pass" ->
           Deploy(Config(0, 0, "flag", FALSE, "event.type", 0, NoFlap),
                  ShortNow, MaxReqs, TypesAB, Flags, Tenants, GoodKey)
      [] name = "passneg" ->
           Deploy(Config(0, 2, "flag", TRUE, "event.type", 0, NoFlap),
                  ShortNow, MaxReqs, TypesAB, Flags, Tenants, GoodKey)
      [] name = "cool2" ->
           Deploy(Config(0, 0, "", FALSE, "event.type", 0, Flap(10, 0, 1, 1, 2)),
                  MaxNow, MaxReqs, TypesAB, NoFlag, Tenants, GoodKey)
      [] name = "cool12" ->
           Deploy(Config(0, 0, "", FALSE, "event.type", 1, Flap(10, 0, 1, 0, 12)),
                  MaxNow, MaxReqs, TypesAB, NoFlag, Tenants, GoodKey)
      [] name = "flap1" ->
           Deploy(Config(0, 0, "", FALSE, "event.type", 0, Flap(10, 0, 1, 1, 0)),
                  ShortNow, MaxReqs, TypesAB, NoFlag, Tenants, GoodKey)
      [] name = "agg2" ->
           Deploy(Config(0, 0, "", FALSE, "event.type", 0, Flap(10, 0, 2, 0, 0)),
                  ShortNow, LongReqs, TypesAB, NoFlag, Tenants, GoodKey)
      [] name = "agg32" ->
           Deploy(Config(0, 0, "", FALSE, "event.type", 0, Flap(10, 0, 3, 2, 0)),
                  ShortNow, MaxReqs, TypesAB, NoFlag, Tenants, GoodKey)
      [] name = "supagg" ->
           Deploy(Config(0, 0, "", FALSE, "event.type", 0, Flap(10, 1, 1, 1, 0)),
                  ShortNow, LongReqs, TypesAB, NoFlag, Tenants, GoodKey)
      [] name = "supfwd" ->
           Deploy(Config(0, 0, "", FALSE, "event.type", 0, Flap(10, 1, 0, 0, 0)),
                  ShortNow, LongReqs, TypesAB, NoFlag, Tenants, GoodKey)
      [] name = "plain" ->
           Deploy(Config(0, 0, "", FALSE, "event.type", 0, NoFlap),
                  ShortNow, LongReqs, TypesABC, NoFlag, Tenants, GoodKey)
      [] name = "auth" ->
           Deploy(Config(2, 0, "", FALSE, "event.type", 0, NoFlap),
                  ShortNow, MaxReqs, TypesAB, NoFlag, Callers, CallerKeys)
      [] name = "two" ->
           Deploy(Config(2, 1, "", FALSE, "event.type", 0, NoFlap),
                  ShortNow, LongReqs, TypesAB, NoFlag, TwoTenants, GoodKey)
      [] name = "three" ->
           Deploy(Config(2, 2, "", FALSE, "event.type", 1, NoFlap),
                  ShortNow, MaxReqs, TypesAB, NoFlag, Tenants, GoodKey)
      [] name = "agg12" ->
           Deploy(Config(0, 0, "", FALSE, "event.type", 2, Flap(10, 0, 1, 2, 0)),
                  ShortNow, MaxReqs, TypesAB, NoFlag, Tenants, GoodKey)
      [] name = "aggcool" ->
           Deploy(Config(0, 0, "", FALSE, "event.type", 0, Flap(10, 0, 1, 2, 2)),
                  MaxNow, MaxReqs, TypesAB, NoFlag, Tenants, GoodKey)
      [] name = "scopes" ->
           Deploy(Config(0, 0, "", FALSE, "event.type", 0, NoFlap),
                  ShortNow, MaxReqs, TypesAB, TrueFalse, TwoTenants, GoodKey)
      [] name = "badexpr" ->
           Deploy(Config(3, 2, "", FALSE, "(", 0, NoFlap),
                  ShortNow, MaxReqs, TypesAB, NoFlag, Tenants, GoodKey)
      [] name = "limsup" ->
           Deploy(Config(3, 3, "flag", FALSE, "event.type", 0, Flap(10, 1, 0, 0, 0)),
                  ShortNow, MaxReqs, TypesAB, Flags, Tenants, GoodKey)
      [] name = "limits" ->
           Deploy(Config(2, 1, "", FALSE, "event.type", 0, NoFlap),
                  ShortNow, MaxReqs, TypesAB, NoFlag, Tenants, GoodKey)

FixturesSeq == {"edge", "iplimit", "pass", "passneg", "cool2", "cool12", "agg2",
                "supagg", "supfwd", "plain", "auth", "two", "novalue", "agg32", "scopes"}
FixturesConc == {"edge", "pass", "flap1", "supagg", "supfwd", "limits", "iplimit"}

\* the second tenant of the deployment "two": no IP limit, a tenant limit of 2
OtherTenant == "t3"
OtherConfig == Config(0, 2, "", FALSE, "event.type", 0, NoFlap)

\* the second tenant of the deployment "scopes": it watches another field
FlagConfig == Config(0, 0, "", FALSE, "flag", 0, NoFlap)

\* the ClientStore of a deployment
StoreOf(name) ==
    IF name = "two"
      THEN (OtherTenant :> OtherConfig) @@ [t \in Tenants |-> Fixture(name).cfg]
    ELSE IF name = "scopes"
      THEN (OtherTenant :> FlagConfig) @@ [t \in Tenants |-> Fixture(name).cfg]
      ELSE [t \in Tenants |-> Fixture(name).cfg]

TickSteps == {1, 11}

----------------------------------------------------------------------------
(* flow.Run and api.Handler.handleNotify *)

NoDecision == [path |-> "none"]

\* an Auth that takes any credential that is not empty; C18 does not hold of it
AuthAnyKey(cc, clientID, clientKey) ==
    IF clientID = "" \/ clientKey = "" THEN "missing headers" ELSE ""

\* Auth: the error, "" for nil
Auth(cc, clientID, clientKey) ==
    IF clientID = "" \/ clientKey = "" THEN "missing headers"
    ELSE IF clientKey # cc.ClientKey THEN "invalid credentials"
    ELSE ""

\* a request, as handleNotify starts it
NewRequest(tenant, clientKey, ip, payload) ==
    [op |-> "Run", tenant |-> tenant, clientKey |-> clientKey, ip |-> ip,
     payload |-> payload,
     newVal |-> "", action |-> NoOp, statusCode |-> StatusAccepted, err |-> "",
     newPayload |-> "payload",
     \* positions inside a DataStore call
     lim |-> "", bk |-> <<>>, cur |-> 0, dec |-> NoDecision,
     \* history of the request
     pt |-> FALSE, engine |-> "none", path |-> "none", cas |-> "none", t |-> 0,
     loads |-> 0, prev |-> 0, from |-> "(none)", ws |-> -1, flipCount |-> 0, nrecent |-> 0,
     deadline |-> -1,
     obs |-> 0, nth |-> 0, follows |-> "", asked |-> {}, denied |-> "", pubs |-> 0,
     \* the DataStore call of the request that returned an error, if one did
     fault |-> "",
     \* the Acquire calls of the request
     acqs |-> 0]

ScopeKeyOf(cc) == ComputeKey(cc.Trigger.FieldExpr)

\* a tenant limit whose bucket all tenants share; C22 does not hold of it
LimScopeShared(lim, c, cc) ==
    CASE lim = "ip"     -> <<"IP", c.ip>>
      [] lim = "client" -> <<"CLIENT", "">>
      [] lim = "target" -> <<"TARGET", c.tenant, cc.Trigger.Target.SNSArn>>

LimScope(lim, c, cc) ==
    CASE lim = "ip"     -> <<"IP", c.ip>>
      [] lim = "client" -> <<"CLIENT", c.tenant>>
      [] lim = "target" -> <<"TARGET", c.tenant, cc.Trigger.Target.SNSArn>>

LimRate(lim, cc) ==
    CASE lim = "ip"     -> cc.IPRPM
      [] lim = "client" -> cc.ClientRPM
      [] lim = "target" -> cc.Trigger.Target.SNSRPM

Done(c) ==
    [pc |-> "idle",
     c |-> [c EXCEPT !.lim = "", !.bk = <<>>, !.cur = 0, !.dec = NoDecision]]

\* a handler that publishes whatever Run returned without error; C19 does not
\* hold of it
RespondPublishesAll(c) ==
    IF c.err # "" THEN Done(c) ELSE [pc |-> "publish", c |-> c]

\* handleNotify after Run: the error reply, the status reply, or the publish
Respond(c) ==
    IF c.err # "" THEN Done(c)
    ELSE IF c.action \in {AggregateSent, EdgeTriggeredForward, ForwardedAsIs}
      THEN [pc |-> "publish", c |-> c]
    ELSE Done(c)

\* a target limit that is asked whatever the action is; C25 does not hold of it
RunTargetAnyAction(c, cc) ==
    IF cc.Trigger.Target.SNSRPM > 0
      THEN [pc |-> "target", c |-> [c EXCEPT !.lim = "target"]]
      ELSE Respond(c)

\* Run from the target limit on
RunTarget(c, cc) ==
    IF c.action \in {EdgeTriggeredForward, AggregateSent}
         /\ cc.Trigger.Target.SNSRPM > 0
      THEN [pc |-> "target", c |-> [c EXCEPT !.lim = "target"]]
      ELSE Respond(c)

\* Run from the pass-through rule to the engine
RunEdge(c, cc) ==
    IF CheckPassthrough(cc.Passthrough, c.payload)
      THEN Respond([c EXCEPT !.action = ForwardedAsIs, !.pt = TRUE])
    ELSE IF cc.Trigger.FieldExpr = ""
      THEN Respond([c EXCEPT !.action = ForwardedAsIs])
    ELSE LET newVal == EvalString(cc.Trigger.FieldExpr, c.payload) IN
         IF newVal.err
           THEN Respond([c EXCEPT !.statusCode = StatusBadRequest,
                                  !.err = "trigger field eval error"])
         ELSE IF newVal.nil THEN RunTarget(c, cc)
         ELSE [pc |-> "load", c |-> [c EXCEPT !.newVal = newVal.s]]

RunClient(c, cc) ==
    IF cc.ClientRPM > 0 THEN [pc |-> "client", c |-> [c EXCEPT !.lim = "client"]]
                        ELSE RunEdge(c, cc)

\* a Run that looks at the pass-through rule before the limits; C39 does not
\* hold of it
RunIPAfterPassthrough(c, cc) ==
    IF CheckPassthrough(cc.Passthrough, c.payload)
      THEN Respond([c EXCEPT !.action = ForwardedAsIs, !.pt = TRUE])
    ELSE IF cc.IPRPM > 0 THEN [pc |-> "ip", c |-> [c EXCEPT !.lim = "ip"]]
                         ELSE RunClient(c, cc)

RunIP(c, cc) ==
    IF cc.IPRPM > 0 THEN [pc |-> "ip", c |-> [c EXCEPT !.lim = "ip"]]
                    ELSE RunClient(c, cc)

\* a target limit that answers 429 and forwards all the same; C8 does not hold of it
TargetDeniedKeepsAction(c) == [c EXCEPT !.statusCode = StatusTooManyRequests]

TargetDenied(c) == [c EXCEPT !.action = NoOp, !.statusCode = StatusTooManyRequests]

\* an IP limit whose denial lets the request go on; C16 does not hold of it
AfterAcquireIpPasses(c0, cc, ok) ==
    LET c == [c0 EXCEPT !.asked = @ \cup {c0.lim}, !.acqs = @ + 1,
                        !.denied = IF ok THEN @ ELSE c0.lim] IN
    CASE c.lim = "ip" -> RunClient(c, cc)
      [] c.lim = "client" ->
           IF ok THEN RunEdge(c, cc)
                 ELSE Respond([c EXCEPT !.err = "rate limit (client)"])
      [] c.lim = "target" ->
           IF ok THEN Respond(c) ELSE Respond(TargetDenied(c))

\* Run after an Acquire returned ok
AfterAcquire(c0, cc, ok) ==
    LET c == [c0 EXCEPT !.asked = @ \cup {c0.lim}, !.acqs = @ + 1,
                        !.denied = IF ok THEN @ ELSE c0.lim] IN
    CASE c.lim = "ip" ->
           IF ok THEN RunClient(c, cc)
                 ELSE Respond([c EXCEPT !.err = "rate limit (ip)"])
      [] c.lim = "client" ->
           IF ok THEN RunEdge(c, cc)
                 ELSE Respond([c EXCEPT !.err = "rate limit (client)"])
      [] c.lim = "target" ->
           IF ok THEN Respond(c) ELSE Respond(TargetDenied(c))

\* a Run that evaluates again as long as UpsertCAS does not commit; C35 does
\* not hold of it
AfterEngineRetries(c0, cc, ok) ==
    LET d == c0.dec
        c == [c0 EXCEPT !.action = d.onOk, !.engine = d.onOk,
                        !.newPayload = IF d.onOk = AggregateSent THEN d.agg ELSE "nil",
                        !.cas = IF ~d.write THEN "none" ELSE "commit"]
    IN IF ok THEN RunTarget(c, cc) ELSE [pc |-> "load", c |-> c0]

\* Run after the engine returned
AfterEngine(c0, cc, ok) ==
    LET d == c0.dec
        act == IF ok THEN d.onOk ELSE d.onMiss
        c == [c0 EXCEPT !.action = act, !.engine = act,
                        !.newPayload = IF ok /\ d.onOk = AggregateSent
                                         THEN d.agg ELSE "nil",
                        !.cas = IF ~d.write THEN "none"
                                ELSE IF ok THEN "commit" ELSE "miss"]
    IN RunTarget(c, cc)

Land(p, nx) ==
    /\ pc' = [pc EXCEPT ![p] = nx.pc]
    /\ IF nx.pc = "idle"
         THEN /\ call' = [call EXCEPT ![p] = NoCall]
              /\ res' = [res EXCEPT ![p] = nx.c]
         ELSE /\ call' = [call EXCEPT ![p] = nx.c]
              /\ UNCHANGED res

Init ==
    /\ backend \in Backends
    /\ seq = FALSE
    /\ scn \in FixturesConc
    /\ cfg = StoreOf(scn)
    /\ cfgCache = <<>>
    /\ now = 1
    /\ edges = <<>>
    /\ buckets = <<>>
    /\ pc = [p \in Procs |-> "idle"]
    /\ call = [p \in Procs |-> NoCall]
    /\ res = [p \in Procs |-> NoRes]
    /\ grants = <<>>
    /\ nops = 0
    /\ hist = NoHist
    /\ published = <<>>

InitSeq ==
    /\ backend \in Backends
    /\ seq = TRUE
    /\ scn \in FixturesSeq
    /\ cfg = StoreOf(scn)
    /\ cfgCache = <<>>
    /\ now = 1
    /\ edges = <<>>
    /\ buckets = <<>>
    /\ pc = [p \in Procs |-> "idle"]
    /\ call = [p \in Procs |-> NoCall]
    /\ res = [p \in Procs |-> NoRes]
    /\ grants = <<>>
    /\ nops = 0
    /\ hist = NoHist
    /\ published = <<>>

\* handleNotify up to Run's first DataStore call
Notify(p, tenant, clientKey, ip, payload) ==
    /\ pc[p] = "idle"
    /\ nops < (IF seq THEN Fixture(scn).reqs ELSE MaxConcReqs)
    /\ seq => (p = "p1" /\ \A q \in Procs : pc[q] = "idle")
    /\ nops' = nops + 1
    /\ LET c0 == NewRequest(tenant, clientKey, ip, payload)
           c == [c0 EXCEPT !.follows =
                    IF res[p].op = "Run" /\ res[p].denied = "target"
                      THEN res[p].newVal ELSE ""]
       IN
       IF tenant \notin DOMAIN cfg
         THEN /\ Land(p, Done([c EXCEPT !.statusCode = StatusUnauthorized,
                                        !.err = "unknown client"]))
              /\ UNCHANGED hist
       ELSE IF Auth(cfg[tenant], tenant, clientKey) # ""
         THEN /\ Land(p, Done([c EXCEPT !.statusCode = StatusUnauthorized,
                                        !.err = Auth(cfg[tenant], tenant, clientKey)]))
              /\ UNCHANGED hist
       ELSE LET \* the tenant's requests so far, counted where they come in turn
                n == IF ~seq THEN 0
                     ELSE IF tenant \in DOMAIN hist.sent THEN hist.sent[tenant] + 1
                     ELSE 1
                v == EvalString(cfg[tenant].Trigger.FieldExpr, payload)
                s == IF v.err THEN "(error)" ELSE IF v.nil THEN "(nil)" ELSE v.s
            IN /\ Land(p, RunIP([c EXCEPT !.nth = n], cfg[tenant]))
               /\ hist' = [hist EXCEPT !.sent = Put(@, tenant, n),
                              !.vals = Put(@, tenant,
                              (IF tenant \in DOMAIN @ THEN @[tenant] ELSE {}) \cup {s})]
    /\ UNCHANGED <<env, now, edges, buckets, grants, published>>

\* Acquire of the IP, client or target limit: the first (DynamoDB: only) command
RunAcquire(p) ==
    /\ pc[p] \in {"ip", "client", "target"}
    /\ LET c == call[p]
           cc == cfg[c.tenant]
           scope == LimScope(c.lim, c, cc)
           rate == LimRate(c.lim, cc)
           bk == BucketKey(scope, now)
       IN
       IF backend = "ddb"
         THEN LET r == DdbAcquire(buckets, scope, rate, now) IN
              /\ buckets' = r.bs
              /\ grants' = IF r.ok THEN Bump(grants, bk) ELSE grants
              /\ Land(p, AfterAcquire(c, cc, r.ok))
         ELSE IF rate <= 0
           THEN /\ Land(p, AfterAcquire(c, cc, FALSE))
                /\ UNCHANGED <<buckets, grants>>
           ELSE LET rd == RedisReadCount(buckets, bk) IN
                IF RedisUnderCapacity(rd, rate)
                  THEN /\ pc' = [pc EXCEPT ![p] = "acqIncr"]
                       /\ call' = [call EXCEPT ![p] = [c EXCEPT !.bk = bk]]
                       /\ UNCHANGED <<buckets, grants, res>>
                  ELSE /\ Land(p, AfterAcquire(c, cc, FALSE))
                       /\ UNCHANGED <<buckets, grants>>
    /\ UNCHANGED <<env, now, edges, nops, hist, published>>

\* Acquire on Redis, second command: the HIncrBy
RunAcquireIncr(p) ==
    /\ pc[p] = "acqIncr"
    /\ LET c == call[p] IN
       /\ buckets' = RedisIncr(buckets, c.bk)
       /\ grants' = Bump(grants, c.bk)
       /\ Land(p, AfterAcquire(c, cfg[c.tenant], TRUE))
    /\ UNCHANGED <<env, now, edges, nops, hist, published>>

\* EvaluateEdgeAndFlap: EpochTime, Load and the decision; a decision that
\* writes nothing returns at once
EngineLoad(p) ==
    /\ pc[p] = "load"
    /\ LET c0 == call[p]
           cc == cfg[c0.tenant]
           k == <<c0.tenant, ScopeKeyOf(cc)>>
           ld == IF backend = "ddb" THEN DdbLoad(edges, k) ELSE RedisLoad(edges, k)
           d == EngineDecide(ld, c0.newVal, cc.Trigger.Flapping, c0.payload, now)
           n == IF k \in DOMAIN hist.obs THEN hist.obs[k] + 1 ELSE 1
           seen == Len(ld.edge.Recent) + 1
           c == [c0 EXCEPT !.dec = d, !.path = d.path, !.t = now, !.loads = @ + 1,
                           !.obs = n, !.prev = d.prev,
                           !.from = IF ld.found THEN ld.edge.LastValue ELSE "(none)",
                           !.ws = IF ld.found THEN ld.edge.WindowStart ELSE -1,
                           !.flipCount = IF d.path = "aggregate"
                                           THEN d.agg.flip_count ELSE d.next.FlipCount,
                           !.nrecent = IF d.path = "aggregate"
                                         THEN (IF seen > HardLimitRecentItems
                                                 THEN HardLimitRecentItems ELSE seen)
                                         ELSE Len(d.next.Recent),
                           !.deadline = IF k \in DOMAIN hist.deadline
                                          THEN hist.deadline[k] ELSE -1]
       IN
       /\ hist' = [hist EXCEPT !.obs = Put(@, k, n)]
       /\ IF d.write
            THEN /\ pc' = [pc EXCEPT ![p] = "cas"]
                 /\ call' = [call EXCEPT ![p] = c]
                 /\ UNCHANGED res
            ELSE Land(p, AfterEngine(c, cc, TRUE))
    /\ UNCHANGED <<env, now, edges, buckets, grants, nops, published>>

AggregateCommitted(h, k, d, t, f) ==
    IF d.path = "aggregate"
      THEN [h EXCEPT !.deadline = Put(@, k, t + f.AggregateCooldownSeconds)]
      ELSE h

NoOutcomes == [first |-> 0, sup |-> 0, fwd |-> 0]

\* the outcomes the engine returned in the window that the scope is in: the
\* forward of the first observation, and the SuppressFlapping and forward
\* outcomes of the flips
WindowOutcomes(h, k, c, f, ok) ==
    LET d == c.dec
        act == IF ok THEN d.onOk ELSE d.onMiss
        was == IF k \in DOMAIN h.win THEN h.win[k] ELSE NoOutcomes
        rolled == ok /\ RollsWindow(f, c.t, [WindowStart |-> c.ws])
        base == IF rolled THEN NoOutcomes ELSE was
    IN
    IF f = NoFlap \/ d.path = "stable" THEN h
    ELSE IF d.path = "first"
      THEN IF ok THEN [h EXCEPT !.win = Put(@, k, [NoOutcomes EXCEPT !.first = 1])]
                 ELSE h
    ELSE IF act = SuppressFlapping
      THEN [h EXCEPT !.win = Put(@, k, [base EXCEPT !.sup = @ + 1])]
    ELSE IF act \in {EdgeTriggeredForward, AggregateSent}
      THEN [h EXCEPT !.win = Put(@, k, [base EXCEPT !.fwd = @ + 1])]
    ELSE h

\* the history after the engine returned
Returned(h, k, c, f, ok) ==
    WindowOutcomes(IF ok THEN AggregateCommitted(h, k, c.dec, c.t, f) ELSE h,
                   k, c, f, ok)

\* the engine's UpsertCAS: the first (DynamoDB, Redis create path: only) command
EngineUpsertCAS(p) ==
    /\ pc[p] = "cas"
    /\ LET c == call[p]
           cc == cfg[c.tenant]
           k == <<c.tenant, ScopeKeyOf(cc)>>
           d == c.dec
       IN
       IF backend = "ddb"
         THEN LET r == DdbUpsertCAS(edges, k, d.prev, d.next) IN
              /\ edges' = r.es
              /\ hist' = Returned(hist, k, c, cc.Trigger.Flapping, r.ok)
              /\ Land(p, AfterEngine(c, cc, r.ok))
         ELSE IF d.prev = 0
           THEN /\ edges' = RedisCreate(edges, k, d.next)
                /\ hist' = Returned(hist, k, c, cc.Trigger.Flapping, TRUE)
                /\ Land(p, AfterEngine(c, cc, TRUE))
           ELSE LET cur == RedisReadVer(edges, k) IN
                IF RedisVersionMatches(cur, d.prev)
                  THEN /\ pc' = [pc EXCEPT ![p] = "casWrite"]
                       /\ call' = [call EXCEPT ![p] = [c EXCEPT !.cur = cur]]
                       /\ UNCHANGED <<edges, res, hist>>
                  ELSE /\ Land(p, AfterEngine(c, cc, FALSE))
                       /\ hist' = Returned(hist, k, c, cc.Trigger.Flapping, FALSE)
                       /\ UNCHANGED edges
    /\ UNCHANGED <<env, now, buckets, grants, nops, published>>

\* UpsertCAS on Redis, second command: the HMSet
EngineCasWrite(p) ==
    /\ pc[p] = "casWrite"
    /\ LET c == call[p]
           cc == cfg[c.tenant]
           k == <<c.tenant, ScopeKeyOf(cc)>>
       IN
       /\ edges' = RedisWrite(edges, k, c.cur, c.dec.next)
       /\ hist' = Returned(hist, k, c, cc.Trigger.Flapping, TRUE)
       /\ Land(p, AfterEngine(c, cc, TRUE))
    /\ UNCHANGED <<env, now, buckets, grants, nops, published>>

\* handleNotify: PublishRaw of the original payload or of the aggregate
Publish(p) ==
    /\ pc[p] = "publish"
    /\ LET c == call[p]
           body == IF c.action = AggregateSent THEN c.newPayload ELSE c.payload
       IN
       /\ published' = Append(published,
                              [arn |-> cfg[c.tenant].Trigger.Target.SNSArn,
                               tenant |-> c.tenant,
                               kind |-> IF c.action = AggregateSent
                                          THEN "aggregate" ELSE "payload",
                               body |-> body])
       /\ Land(p, Done([c EXCEPT !.pubs = @ + 1]))
    /\ UNCHANGED <<env, now, edges, buckets, grants, nops, hist>>

\* the clock moves on
Tick(d) ==
    /\ now + d <= Fixture(scn).horizon
    /\ now' = now + d
    /\ UNCHANGED <<env, edges, buckets, pc, call, res, grants, nops, hist, published>>

Next ==
    \/ \E p \in Procs, t \in Fixture(scn).tenants, ck \in Fixture(scn).keys,
          ip \in ClientIPs,
          ty \in Fixture(scn).types, fl \in Fixture(scn).flags :
          Notify(p, t, ck, ip, [type |-> ty, flag |-> fl])
    \/ \E p \in Procs : RunAcquire(p)
    \/ \E p \in Procs : RunAcquireIncr(p)
    \/ \E p \in Procs : EngineLoad(p)
    \/ \E p \in Procs : EngineUpsertCAS(p)
    \/ \E p \in Procs : EngineCasWrite(p)
    \/ \E p \in Procs : Publish(p)
    \/ \E d \in TickSteps : Tick(d)

Spec == Init /\ [][Next]_vars

SpecSeq == InitSeq /\ [][Next]_vars

----------------------------------------------------------------------------
(* The pipeline on a scope with a long history: before the requests that are *)
(* followed step by step, the tenant sends a first value and then MinStored  *)
(* or more alternating values, each request run from Load to UpsertCAS       *)
(* without another one in between.                                            *)

MinStored == 126

FixturesLong == {"novalue", "supfwd"}

OtherValue(v) == IF v = "a" THEN "b" ELSE "a"

InitLong ==
    /\ backend \in Backends
    /\ seq = TRUE
    /\ scn \in FixturesLong
    /\ cfg = StoreOf(scn)
    /\ cfgCache = <<>>
    /\ now = 1
    /\ edges = <<>>
    /\ buckets = <<>>
    /\ pc = [p \in Procs |-> IF p = "p1" THEN "warm" ELSE "idle"]
    /\ call = [p \in Procs |-> NoCall]
    /\ res = [p \in Procs |-> NoRes]
    /\ grants = <<>>
    /\ nops = 0
    /\ hist = NoHist
    /\ published = <<>>

\* one request of the history: EvaluateEdgeAndFlap with the value that the
\* scope does not hold, Load, decision and UpsertCAS in one step
WarmUp(p) ==
    /\ pc[p] = "warm"
    /\ LET cc == cfg["t1"]
           k == <<"t1", ScopeKeyOf(cc)>>
           ld == IF backend = "ddb" THEN DdbLoad(edges, k) ELSE RedisLoad(edges, k)
           newVal == IF ld.found THEN OtherValue(ld.edge.LastValue) ELSE "a"
           d == EngineDecide(ld, newVal, cc.Trigger.Flapping,
                             [type |-> JStr(newVal), flag |-> JNull], now)
           es == IF backend = "ddb" THEN DdbUpsertCAS(edges, k, d.prev, d.next).es
                 ELSE IF d.prev = 0 THEN RedisCreate(edges, k, d.next)
                 ELSE RedisWrite(edges, k, RedisReadVer(edges, k), d.next)
           n == Len(es[k].Recent)
       IN
       /\ edges' = es
       /\ \E nx \in {"warm", "idle"} :
             /\ nx = "warm" => n < HardLimitRecentItems
             /\ nx = "idle" => n >= MinStored
             /\ pc' = [pc EXCEPT ![p] = nx]
    /\ UNCHANGED <<env, now, buckets, call, res, grants, nops, hist, published>>

NextLong ==
    \/ Next
    \/ WarmUp("p1")

SpecLong == InitLong /\ [][NextLong]_vars

----------------------------------------------------------------------------
(* Overlapping requests whose handlers keep running: a request that has a    *)
(* step to take takes it sooner or later; nothing says that new requests     *)
(* arrive or that the clock moves.                                            *)

FixturesLive == {"three", "supagg", "flap1"}

InitLive ==
    /\ backend \in Backends
    /\ seq = FALSE
    /\ scn \in FixturesLive
    /\ cfg = StoreOf(scn)
    /\ cfgCache = <<>>
    /\ now = 1
    /\ edges = <<>>
    /\ buckets = <<>>
    /\ pc = [p \in Procs |-> "idle"]
    /\ call = [p \in Procs |-> NoCall]
    /\ res = [p \in Procs |-> NoRes]
    /\ grants = <<>>
    /\ nops = 0
    /\ hist = NoHist
    /\ published = <<>>

\* the next step of the handler that serves the request of p
HandlerStep(p) ==
    \/ RunAcquire(p)
    \/ RunAcquireIncr(p)
    \/ EngineLoad(p)
    \/ EngineUpsertCAS(p)
    \/ EngineCasWrite(p)
    \/ Publish(p)

SpecLive == InitLive /\ [][Next]_vars /\ \A p \in Procs : WF_vars(HandlerStep(p))

----------------------------------------------------------------------------
(* Requests one after the other whose payloads carry a serial number, as the *)
(* integration tests send them ("id": i): every flip can be told from every  *)
(* other one.                                                                 *)

FixturesAgg == {"agg12", "aggcool"}

InitAgg ==
    /\ backend \in Backends
    /\ seq = TRUE
    /\ scn \in FixturesAgg
    /\ cfg = StoreOf(scn)
    /\ cfgCache = <<>>
    /\ now = 1
    /\ edges = <<>>
    /\ buckets = <<>>
    /\ pc = [p \in Procs |-> "idle"]
    /\ call = [p \in Procs |-> NoCall]
    /\ res = [p \in Procs |-> NoRes]
    /\ grants = <<>>
    /\ nops = 0
    /\ hist = NoHist
    /\ published = <<>>

NextAgg ==
    \/ \E p \in Procs, t \in Fixture(scn).tenants, ck \in Fixture(scn).keys,
          ip \in ClientIPs,
          ty \in Fixture(scn).types, fl \in Fixture(scn).flags :
          Notify(p, t, ck, ip, [type |-> ty, flag |-> fl, id |-> nops + 1])
    \/ \E p \in Procs : RunAcquire(p)
    \/ \E p \in Procs : RunAcquireIncr(p)
    \/ \E p \in Procs : EngineLoad(p)
    \/ \E p \in Procs : EngineUpsertCAS(p)
    \/ \E p \in Procs : EngineCasWrite(p)
    \/ \E p \in Procs : Publish(p)
    \/ \E d \in TickSteps : Tick(d)

SpecAgg == InitAgg /\ [][NextAgg]_vars

----------------------------------------------------------------------------
(* The pipeline with a DataStore whose calls may return an error: requests   *)
(* one after the other, any call of a request may fail.                      *)

FixturesFault == {"edge", "limits", "supagg"}

InitFault ==
    /\ backend \in Backends
    /\ seq = TRUE
    /\ scn \in FixturesFault
    /\ cfg = StoreOf(scn)
    /\ cfgCache = <<>>
    /\ now = 1
    /\ edges = <<>>
    /\ buckets = <<>>
    /\ pc = [p \in Procs |-> "idle"]
    /\ call = [p \in Procs |-> NoCall]
    /\ res = [p \in Procs |-> NoRes]
    /\ grants = <<>>
    /\ nops = 0
    /\ hist = NoHist
    /\ published = <<>>

\* Run after an Acquire returned an error
AcquireFailed(c0) ==
    LET c == [c0 EXCEPT !.asked = @ \cup {c0.lim}, !.acqs = @ + 1,
                        !.fault = c0.lim] IN
    IF c.lim = "target"
      THEN Respond([c EXCEPT !.statusCode = StatusInternalServerError,
                             !.err = "rate limit check failed"])
      ELSE Respond([c EXCEPT !.err = "rate limit check failed"])

\* Run after the engine returned the action act and an error
EngineFailed(c, act) ==
    Respond([c EXCEPT !.action = act, !.engine = act, !.newPayload = "nil",
                      !.statusCode = StatusInternalServerError,
                      !.err = "edge evaluation error"])

\* Acquire returns an error: either command of the Redis limiter, or the
\* DynamoDB update for another reason than its condition
AcquireFails(p) ==
    /\ pc[p] \in {"ip", "client", "target", "acqIncr"}
    /\ Land(p, AcquireFailed(call[p]))
    /\ UNCHANGED <<env, now, edges, buckets, grants, nops, hist, published>>

\* the engine's Load returns an error
LoadFails(p) ==
    /\ pc[p] = "load"
    /\ Land(p, EngineFailed([call[p] EXCEPT !.fault = "load", !.t = now,
                                            !.loads = @ + 1], NoOp))
    /\ UNCHANGED <<env, now, edges, buckets, grants, nops, hist, published>>

\* the engine's UpsertCAS returns an error and writes nothing: the
\* suppress-below path drops the error, the aggregate path returns it with
\* SuppressFlapping, the other paths with NoOp
UpsertCASFails(p) ==
    /\ pc[p] \in {"cas", "casWrite"}
    /\ LET c == [call[p] EXCEPT !.fault = "cas", !.cas = "error"]
           cc == cfg[c.tenant]
           k == <<c.tenant, ScopeKeyOf(cc)>>
       IN
       IF c.dec.path = "suppress"
         THEN /\ Land(p, RunTarget([c EXCEPT !.action = SuppressFlapping,
                                             !.engine = SuppressFlapping,
                                             !.newPayload = "nil"], cc))
              /\ hist' = Returned(hist, k, c, cc.Trigger.Flapping, FALSE)
       ELSE IF c.dec.path \in {"aggregate", "hold"}
         THEN /\ Land(p, EngineFailed(c, SuppressFlapping))
              /\ UNCHANGED hist
       ELSE /\ Land(p, EngineFailed(c, NoOp))
            /\ UNCHANGED hist
    /\ UNCHANGED <<env, now, edges, buckets, grants, nops, published>>

NextFault ==
    \/ Next
    \/ \E p \in Procs : AcquireFails(p)
    \/ \E p \in Procs : LoadFails(p)
    \/ \E p \in Procs : UpsertCASFails(p)

SpecFault == InitFault /\ [][NextFault]_vars

----------------------------------------------------------------------------
(* The ClientStore: PutClientConfig, GetClientConfig, DeleteClientConfig.    *)
(* cfg is the stored profiles, res["p1"] the result of the last call.        *)

ClientIDMinLength == 4
ClientKeyMinLength == 8
MinWindowSizeSeconds == 10

\* len() of the strings that the configurations below carry
StrLen(s) ==
    CASE s = "" -> 0
      [] s = "n" -> 1
      [] s = "ab" -> 2
      [] s = "tnt1" -> 4
      [] s = "short" -> 5
      [] s = "secret01" -> 8
      [] s = "secret02" -> 8

Profile(id, name, key, ipRpm, clientRpm, snsRpm, flapping) ==
    [ClientID |-> id, ClientName |-> name, ClientKey |-> key,
     IPRPM |-> ipRpm, ClientRPM |-> clientRpm,
     Passthrough |-> [FieldExpr |-> "", Negate |-> FALSE],
     Trigger |-> [FieldExpr |-> "event.type",
                  Target |-> [SNSArn |-> "arn1", SNSRPM |-> snsRpm],
                  Flapping |-> flapping]]

\* ClientConfig.Validate: the error, "" for nil
Validate(c) ==
    IF c.ClientID = "" THEN "client_id is required"
    ELSE IF c.ClientName = "" THEN "client_name is required"
    ELSE IF c.ClientKey = "" THEN "client_key is required"
    ELSE IF StrLen(c.ClientKey) < ClientKeyMinLength
      THEN "api_key must be at least 8 characters"
    ELSE IF c.IPRPM < 0 THEN "ip_rpm must be non-negative"
    ELSE IF c.ClientRPM < 0 THEN "client_rpm must be non-negative"
    ELSE LET flapping == c.Trigger.Flapping IN
         IF flapping # NoFlap /\ flapping.WindowSeconds < MinWindowSizeSeconds
           THEN "flapping.window_seconds must be greater than or equal to 10"
         ELSE IF flapping # NoFlap
                 /\ (flapping.SuppressBelow < 0
                       \/ flapping.SuppressBelow > flapping.WindowSeconds)
           THEN "flapping.suppress_below must be non-negative"
         ELSE ""

\* a configuration that is in order, and the same with one field changed
GoodProfile == Profile("tnt1", "n", "secret01", 2, 0, 0, Flap(10, 0, 0, 0, 0))

Profiles ==
    {GoodProfile,
     [GoodProfile EXCEPT !.ClientID = ""],
     [GoodProfile EXCEPT !.ClientID = "ab"],
     [GoodProfile EXCEPT !.ClientName = ""],
     [GoodProfile EXCEPT !.ClientKey = ""],
     [GoodProfile EXCEPT !.ClientKey = "short"],
     [GoodProfile EXCEPT !.IPRPM = -1],
     [GoodProfile EXCEPT !.ClientRPM = -1],
     [GoodProfile EXCEPT !.ClientRPM = 3],
     [GoodProfile EXCEPT !.Trigger.Target.SNSRPM = -1],
     [GoodProfile EXCEPT !.Trigger.Flapping = NoFlap],
     [GoodProfile EXCEPT !.Trigger.Flapping = Flap(9, 0, 0, 0, 0)],
     [GoodProfile EXCEPT !.Trigger.Flapping = Flap(10, -1, 0, 0, 0)],
     [GoodProfile EXCEPT !.Trigger.Flapping = Flap(10, 10, 0, 0, 0)],
     [GoodProfile EXCEPT !.Trigger.Flapping = Flap(10, 11, 0, 0, 0)]}

ClientIDs == {"ab", "tnt1"}

InitConfig ==
    /\ backend \in Backends
    /\ seq = FALSE
    /\ scn = "config"
    /\ cfg = <<>>
    /\ cfgCache = <<>>
    /\ now = 0
    /\ edges = <<>>
    /\ buckets = <<>>
    /\ pc = [p \in Procs |-> "idle"]
    /\ call = [p \in Procs |-> NoCall]
    /\ res = [p \in Procs |-> NoRes]
    /\ grants = <<>>
    /\ nops = 0
    /\ hist = NoHist
    /\ published = <<>>

\* both backends: Validate, then the item is written under the key of clientID
PutClientConfig(clientID, config) ==
    /\ IF Validate(config) # ""
         THEN cfg' = cfg
         ELSE cfg' = Put(cfg, clientID, config)
    /\ res' = [res EXCEPT !["p1"] = [op |-> "PutClientConfig", clientID |-> clientID,
                                      config |-> config, err |-> Validate(config)]]
    /\ hist' = IF Validate(config) # "" THEN hist
                ELSE [hist EXCEPT !.changed = Put(@, clientID, now)]
    /\ UNCHANGED <<backend, seq, scn, cfgCache, now, edges, buckets, pc, call, grants,
                   nops, published>>

GetClientConfig(clientID) ==
    /\ res' = [res EXCEPT !["p1"] =
                 IF clientID \in DOMAIN cfg
                   THEN [op |-> "GetClientConfig", clientID |-> clientID,
                         config |-> cfg[clientID], err |-> ""]
                   ELSE [op |-> "GetClientConfig", clientID |-> clientID,
                         config |-> <<>>, err |-> "not found"]]
    /\ UNCHANGED <<env, now, edges, buckets, pc, call, grants, nops, hist, published>>

DeleteClientConfig(clientID) ==
    /\ cfg' = [k \in DOMAIN cfg \ {clientID} |-> cfg[k]]
    /\ res' = [res EXCEPT !["p1"] = [op |-> "DeleteClientConfig",
                                      clientID |-> clientID, err |-> ""]]
    /\ hist' = IF clientID \in DOMAIN cfg
                 THEN [hist EXCEPT !.changed = Put(@, clientID, now)] ELSE hist
    /\ UNCHANGED <<backend, seq, scn, cfgCache, now, edges, buckets, pc, call, grants,
                   nops, published>>

NextConfig ==
    \/ \E clientID \in ClientIDs, config \in Profiles :
          PutClientConfig(clientID, config)
    \/ \E clientID \in ClientIDs : GetClientConfig(clientID)
    \/ \E clientID \in ClientIDs : DeleteClientConfig(clientID)

SpecConfig == InitConfig /\ [][NextConfig]_vars

----------------------------------------------------------------------------
(* The TTL cache in front of the ClientStore: TTL.Get, TTL.Set and           *)
(* LoadCachedClientConfig, with the puts and deletes of the store.           *)

ConfigTTLSeconds == 300

\* a Get that never lets an entry expire; C21 does not hold of it
TTLGetNoExpiry(c, k, t) ==
    IF k \notin DOMAIN c THEN [ok |-> FALSE, val |-> <<>>]
                         ELSE [ok |-> TRUE, val |-> c[k].val]

\* TTL.Get at time t: the entry, unless there is none or t is after its exp
TTLGet(c, k, t) ==
    IF k \notin DOMAIN c \/ t > c[k].exp THEN [ok |-> FALSE, val |-> <<>>]
                                         ELSE [ok |-> TRUE, val |-> c[k].val]

TTLSet(c, k, v, ttl, t) == Put(c, k, [val |-> v, exp |-> t + ttl])

\* the tenant's configuration before and after its secret_key was changed
CacheProfiles == {GoodProfile, [GoodProfile EXCEPT !.ClientKey = "secret02"]}

CachedIDs == {"tnt1"}
CacheKeys == {"secret01", "secret02"}
CacheTicks == {150, 151}

InitCache ==
    /\ backend \in Backends
    /\ seq = FALSE
    /\ scn = "cache"
    /\ cfg = <<>>
    /\ cfgCache = <<>>
    /\ now = 0
    /\ edges = <<>>
    /\ buckets = <<>>
    /\ pc = [p \in Procs |-> "idle"]
    /\ call = [p \in Procs |-> NoCall]
    /\ res = [p \in Procs |-> NoRes]
    /\ grants = <<>>
    /\ nops = 0
    /\ hist = NoHist
    /\ published = <<>>

\* handleNotify down to Auth: LoadCachedClientConfig, then the credential check
LoadCachedClientConfig(id, clientKey) ==
    LET got == TTLGet(cfgCache, id, now)
        found == id \in DOMAIN cfg
        r == [op |-> "LoadCachedClientConfig", clientID |-> id,
              clientKey |-> clientKey, t |-> now, hit |-> got.ok,
              stored |-> IF found THEN cfg[id] ELSE <<>>,
              changed |-> IF id \in DOMAIN hist.changed THEN hist.changed[id] ELSE -1,
              cachedAt |-> IF id \in DOMAIN hist.cached THEN hist.cached[id] ELSE -1]
        answer(cc) == IF Auth(cc, id, clientKey) # "" THEN StatusUnauthorized
                                                       ELSE StatusAccepted
    IN
    /\ IF got.ok
         THEN /\ res' = [res EXCEPT !["p1"] =
                           r @@ [config |-> got.val, err |-> "",
                                 statusCode |-> answer(got.val)]]
              /\ UNCHANGED <<cfgCache, hist>>
       ELSE IF ~found
         THEN /\ res' = [res EXCEPT !["p1"] =
                           r @@ [config |-> <<>>, err |-> "not found",
                                 statusCode |-> StatusUnauthorized]]
              /\ UNCHANGED <<cfgCache, hist>>
       ELSE /\ cfgCache' = TTLSet(cfgCache, id, cfg[id], ConfigTTLSeconds, now)
            /\ hist' = [hist EXCEPT !.cached = Put(@, id, now)]
            /\ res' = [res EXCEPT !["p1"] =
                         r @@ [config |-> cfg[id], err |-> "",
                               statusCode |-> answer(cfg[id])]]
    /\ UNCHANGED <<backend, seq, scn, cfg, now, edges, buckets, pc, call, grants,
                   nops, published>>

TickCache(d) ==
    /\ now + d <= CacheHorizon
    /\ now' = now + d
    /\ UNCHANGED <<env, edges, buckets, pc, call, res, grants, nops, hist, published>>

NextCache ==
    \/ \E id \in CachedIDs, config \in CacheProfiles : PutClientConfig(id, config)
    \/ \E id \in CachedIDs : DeleteClientConfig(id)
    \/ \E id \in CachedIDs, clientKey \in CacheKeys : LoadCachedClientConfig(id, clientKey)
    \/ \E d \in CacheTicks : TickCache(d)

SpecCache == InitCache /\ [][NextCache]_vars

----------------------------------------------------------------------------
(* Claims about the DataStore, checked under SpecStore *)

\* C2: CAS linearization.  A committed UpsertCAS with prev_version >= 1 writes
\* over the very version it carried: at the instant of its write the stored
\* version equals prev_version, so of the concurrent calls that carry one
\* prev_version at most one commits and no committed write is overwritten by a
\* call that read the older version, in both backends.
C2_CasLinearized ==
    \A p \in Procs :
        (res[p].op = "UpsertCAS" /\ res[p].ok /\ res[p].prev >= 1)
            => res[p].verAtWrite = res[p].prev

\* C3: create-only CAS.  UpsertCAS with prev_version = 0 on a key whose item
\* exists returns false and leaves the stored item unchanged, in both backends.
C3_CreateOnly ==
    \A p \in Procs :
        (res[p].op = "UpsertCAS" /\ res[p].prev = 0 /\ res[p].existed)
            => (~res[p].ok /\ res[p].kept)

\* C4: rate-limit bound, DynamoDB.  In every (scope, epoch minute) bucket the
\* number of granted Acquire calls and the stored count are at most cap.
C4_DdbRateBound ==
    backend = "ddb" =>
        /\ \A bk \in DOMAIN grants : grants[bk] <= StoreCap(bk[1])
        /\ \A bk \in DOMAIN buckets : buckets[bk] <= StoreCap(bk[1])

\* a bucket filled to its capacity of 2 has turned a further call down
C4_Witness ==
    /\ backend = "ddb"
    /\ \E p \in Procs :
          /\ res[p].op = "Acquire" /\ ~res[p].ok /\ res[p].cap = 2
          /\ res[p].bk \in DOMAIN grants /\ grants[res[p].bk] = 2

\* C5: rate-limit bound, Redis.  In every (scope, epoch minute) bucket the
\* number of granted Acquire calls is at most cap, whatever the interleaving
\* of the read-count and increment commands.
C5_RedisRateBound ==
    backend = "redis" =>
        \A bk \in DOMAIN grants : grants[bk] <= StoreCap(bk[1])

\* C7: CAS monotonicity.  A committed UpsertCAS with prev_version p leaves the
\* stored version at p + 1, which is at least 1 and above the version the item
\* had just before the write: versions never decrease.
C7_CasMonotone ==
    /\ \A p \in Procs :
          (res[p].op = "UpsertCAS" /\ res[p].ok)
              => /\ res[p].verAfter = res[p].prev + 1
                 /\ res[p].verAfter > res[p].verAtWrite
    /\ \A k \in DOMAIN edges : edges[k].Version >= 1

----------------------------------------------------------------------------
(* Claims about the pipeline *)

Finished(p) == res[p].op = "Run" /\ res[p].statusCode # StatusUnauthorized

Evaluated(p) == Finished(p) /\ res[p].path # "none"

AllIdle == \A p \in Procs : pc[p] = "idle"

\* every authenticated request of the tenant so far carried the same trigger value
SameValue(tenant) ==
    /\ tenant \in DOMAIN hist.vals
    /\ Cardinality(hist.vals[tenant]) = 1
    /\ hist.vals[tenant] \cap {"(error)", "(nil)"} = {}

\* C1: Stability. While all the requests of a tenant, sent one after the other,
\* carry the same trigger value, a request that the pass-through rule does not
\* take produces EdgeTriggeredForward if it is the first observation of the
\* (tenant, scope_key) and NoOp otherwise; a request that the IP or the tenant
\* limit denied is no observation and produces NoOp.
C1_Stability ==
    \A p \in Procs :
       (Finished(p) /\ SameValue(res[p].tenant) /\ ~res[p].pt) =>
          /\ res[p].obs = 1 => res[p].action = EdgeTriggeredForward
          /\ res[p].obs # 1 => res[p].action = NoOp
          /\ res[p].obs > 1 => res[p].path = "stable"

\* the third observation of one value, while a limit is configured
C1_Witness ==
    \E p \in Procs :
       /\ Finished(p) /\ SameValue(res[p].tenant)
       /\ res[p].obs = 3 /\ res[p].action = NoOp
       /\ "client" \in res[p].asked

Forwards == {EdgeTriggeredForward, AggregateSent}

\* a flip of the stored value that the flap controls did not suppress
OpenFlip(p) ==
    Evaluated(p) /\ res[p].path \in {"noflap", "aggregate", "roll", "forward"}

\* C6: Edge on change. A flip that the flap controls do not suppress and whose
\* UpsertCAS committed makes the engine return one forward action, which is
\* published at most once; a flip whose UpsertCAS did not commit returns NoOp
\* and publishes nothing; and no two flips forward for the transition out of
\* the same stored version of one (tenant, scope_key).
C6_EdgeOnChange ==
    /\ \A p \in Procs :
         OpenFlip(p) =>
            /\ res[p].cas = "commit" =>
                  (res[p].engine \in Forwards /\ res[p].pubs <= 1)
            /\ res[p].cas = "miss" =>
                  (res[p].engine = NoOp /\ res[p].action = NoOp /\ res[p].pubs = 0)
            /\ res[p].cas \in {"commit", "miss"}
    /\ \A p, q \in Procs :
         (p # q /\ OpenFlip(p) /\ OpenFlip(q)
            /\ res[p].tenant = res[q].tenant
            /\ res[p].cas = "commit" /\ res[q].cas = "commit")
         => res[p].prev # res[q].prev

\* C8: Target limit with commit. A request for which the engine returned
\* EdgeTriggeredForward or AggregateSent, with target_rpm > 0 and the target
\* limit not granting, ends with action NoOp and status 429 and publishes
\* nothing; the edge state keeps the value the engine wrote, and the same value
\* sent right after it is stable and yields NoOp.
C8_TargetLimitCommit ==
    \A p \in Procs :
       /\ (Finished(p) /\ res[p].engine \in Forwards
             /\ cfg[res[p].tenant].Trigger.Target.SNSRPM > 0
             /\ res[p].denied = "target") =>
            /\ res[p].action = NoOp
            /\ res[p].statusCode = StatusTooManyRequests
            /\ res[p].err = ""
            /\ res[p].pubs = 0
            /\ res[p].cas = "commit"
            /\ AllIdle =>
                 LET k == <<res[p].tenant, ScopeKeyOf(cfg[res[p].tenant])>> IN
                 k \in DOMAIN edges /\ edges[k].LastValue = res[p].newVal
       /\ (Evaluated(p) /\ res[p].follows # "" /\ res[p].follows = res[p].newVal) =>
            (res[p].path = "stable" /\ res[p].action = NoOp /\ res[p].cas = "none")

\* the value of a flip that the target limit denied, sent again
C8_Witness ==
    \E p \in Procs :
       /\ Evaluated(p) /\ res[p].follows # "" /\ res[p].follows = res[p].newVal
       /\ res[p].path = "stable" /\ res[p].action = NoOp
       /\ res[p].obs = 3 /\ Len(published) = 1 /\ AllIdle

\* the pass-through rule of the tenant's configuration matches the payload:
\* the expression is set and selects a boolean b with b XOR negate
PassthroughMatches(tenant, payload) ==
    LET r == cfg[tenant].Passthrough IN
    /\ r.FieldExpr = "flag"
    /\ payload.flag = JBool(~r.Negate)

\* a step of a request that the pass-through rule matched
PassthroughStep(p) ==
    /\ <<pc[p], call[p], res[p]>>' # <<pc[p], call[p], res[p]>>
    /\ \/ pc'[p] # "idle" /\ call'[p].pt
       \/ pc'[p] = "idle" /\ res'[p].op = "Run" /\ res'[p].pt

\* C9: Pass-through short-circuit. A request that passed the limits and that
\* the pass-through rule matches ends as ForwardedAsIs with status 202 and the
\* original payload published, without a Load or an UpsertCAS of its own, and
\* none of its steps changes a stored EdgeState.
C9_PassthroughShortCircuit ==
    /\ [](\A p \in Procs :
            (Finished(p) /\ res[p].denied = ""
               /\ PassthroughMatches(res[p].tenant, res[p].payload)) =>
               /\ res[p].pt
               /\ res[p].action = ForwardedAsIs
               /\ res[p].statusCode = StatusAccepted
               /\ res[p].err = ""
               /\ res[p].newPayload = "payload"
               /\ res[p].pubs = 1
               /\ res[p].loads = 0 /\ res[p].cas = "none" /\ res[p].obs = 0)
    /\ [][\A p \in Procs : PassthroughStep(p) => edges' = edges]_vars

\* a matched request, by the negated rule, after another request stored an edge
C9_Witness ==
    \E p \in Procs :
       /\ Finished(p) /\ res[p].pt /\ res[p].pubs = 1
       /\ cfg[res[p].tenant].Passthrough.Negate
       /\ res[p].payload.flag = JBool(FALSE)
       /\ DOMAIN edges # {}
       /\ published[Len(published)].body = res[p].payload

\* a non-rolling flip of a scope with aggregation, the flips suppressed below
\* the threshold aside
InWindowFlip(p) == Evaluated(p) /\ res[p].path \in {"aggregate", "hold"}

\* a flip that passes suppress-below
PassingFlip(p) ==
    Evaluated(p) /\ res[p].path \in {"aggregate", "hold", "roll", "forward"}

InCooldown(p) == res[p].deadline >= 0 /\ res[p].t <= res[p].deadline

Flapping(p) == cfg[res[p].tenant].Trigger.Flapping

C11_AggregationCadence ==
    \A p \in Procs :
       (InWindowFlip(p)
          /\ Flapping(p).SuppressBelow = 0
          /\ Flapping(p).AggregateAt > 0
          /\ Flapping(p).AggregateCooldownSeconds = 0) =>
          IF res[p].flipCount % Flapping(p).AggregateAt = 0
            THEN res[p].engine = AggregateSent
            ELSE res[p].engine = SuppressFlapping

\* a flip of a scope with a flap config
FlapFlip(p) ==
    /\ Evaluated(p) /\ Flapping(p) # NoFlap
    /\ res[p].path \in {"suppress", "aggregate", "hold", "roll", "forward"}

\* the flip was evaluated past the end of the stored window
PastWindow(p) ==
    /\ Flapping(p).WindowSeconds > 0
    /\ res[p].t - res[p].ws > Flapping(p).WindowSeconds

EdgeOf(p) == edges[<<res[p].tenant, ScopeKeyOf(cfg[res[p].tenant])>>]

\* C12: Window roll. A flip evaluated with now - window_start > window_seconds
\* starts a new window: it commits window_start = now, flip_count = 1 and recent
\* reduced to that one flip, and, unless suppress-below takes it, yields
\* EdgeTriggeredForward and never AggregateSent, also when the aggregate
\* condition holds; a flip with now - window_start <= window_seconds (equality
\* included) stays in the window and adds one to flip_count.
C12_WindowRoll ==
    \A p \in Procs :
       FlapFlip(p) =>
          IF PastWindow(p)
            THEN /\ res[p].flipCount = 1 /\ res[p].nrecent = 1
                 /\ res[p].engine # AggregateSent
                 /\ 1 > Flapping(p).SuppressBelow =>
                       (res[p].path = "roll" /\ res[p].engine = EdgeTriggeredForward)
                 /\ AllIdle =>
                       /\ EdgeOf(p).WindowStart = res[p].t
                       /\ EdgeOf(p).FlipCount = 1
                       /\ Len(EdgeOf(p).Recent) = 1
                       /\ EdgeOf(p).Recent[1].At = res[p].t
                       /\ EdgeOf(p).Recent[1].To = res[p].newVal
            ELSE /\ res[p].path # "roll"
                 /\ AllIdle =>
                       /\ EdgeOf(p).WindowStart = res[p].ws
                       /\ EdgeOf(p).FlipCount = res[p].flipCount
                       /\ res[p].flipCount >= 1

\* a flip past the window of a scope whose aggregate condition holds, after two
\* flips inside the window
C12_Witness ==
    \E p \in Procs :
       /\ FlapFlip(p) /\ PastWindow(p) /\ AllIdle
       /\ res[p].engine = EdgeTriggeredForward /\ res[p].obs = 4
       /\ Flapping(p).AggregateAt = 1
       /\ res[p].t > res[p].deadline
       /\ EdgeOf(p).FlipCount = 1 /\ EdgeOf(p).WindowStart = res[p].t

\* C13: Suppress-below. A flip of a scope with a flap config whose updated
\* flip_count is at most suppress_below yields SuppressFlapping whether its
\* UpsertCAS committed or not, also when the aggregate condition holds in the
\* same step; with aggregate_at = 0 a flip whose flip_count exceeds
\* suppress_below, the first such flip of the window included, yields
\* EdgeTriggeredForward when its UpsertCAS commits.
C13_SuppressBelow ==
    \A p \in Procs :
       FlapFlip(p) =>
          /\ res[p].flipCount <= Flapping(p).SuppressBelow =>
                /\ res[p].engine = SuppressFlapping
                /\ res[p].action = SuppressFlapping
                /\ res[p].cas \in {"commit", "miss"}
                /\ res[p].pubs = 0
          /\ (Flapping(p).AggregateAt = 0
                /\ res[p].flipCount > Flapping(p).SuppressBelow
                /\ res[p].cas = "commit") =>
                res[p].engine = EdgeTriggeredForward

\* a suppressed flip whose UpsertCAS missed while the aggregate condition held
C13_Witness ==
    \E p \in Procs :
       /\ FlapFlip(p) /\ res[p].engine = SuppressFlapping /\ res[p].cas = "miss"
       /\ res[p].flipCount = 1 /\ Flapping(p).SuppressBelow = 1
       /\ Flapping(p).AggregateAt = 1 /\ res[p].nrecent >= 1 /\ res[p].t > 0

Outcomes(k) == IF k \in DOMAIN hist.win THEN hist.win[k] ELSE NoOutcomes

C15_AggregateCap ==
    \A i \in 1 .. Len(published) :
       published[i].kind = "aggregate" =>
          LET f == cfg[published[i].tenant].Trigger.Flapping
              n == Len(published[i].body.recent)
          IN IF f.AggregateMaxItems > 0 THEN n <= f.AggregateMaxItems
                                        ELSE n <= HardLimitRecentItems

\* a published aggregate of one item, built from a state with two recent flips
C15_Witness ==
    \E p \in Procs :
       /\ Finished(p) /\ res[p].action = AggregateSent /\ res[p].pubs = 1
       /\ res[p].nrecent = 2 /\ Flapping(p).AggregateMaxItems = 1
       /\ published[Len(published)].kind = "aggregate"
       /\ Len(published[Len(published)].body.recent) = 1

\* a step in which a request ends that the IP or the tenant limit denied
LimitDeniedStep(p) ==
    /\ res'[p] # res[p]
    /\ res'[p].op = "Run" /\ res'[p].denied \in {"ip", "client"}

PlainFlip(p) ==
    /\ Finished(p) /\ res[p].loads = 1
    /\ cfg[res[p].tenant].Trigger.Flapping = NoFlap
    /\ res[p].from \notin {"(none)", res[p].newVal}

TypesOf(log) == [i \in 1 .. Len(log) |-> log[i].body.type.v]

\* C17: No flap config. With trigger.flapping absent, a request processed alone
\* whose value differs from last_value commits last_value = the new value and
\* makes the engine return EdgeTriggeredForward, a return to an earlier value
\* included; unless the target limit denies it, the original payload is
\* published once, and the publisher's log only grows at its end, by the
\* payload of the request in progress, so that the log is in request order.
C17_NoFlapConfig ==
    /\ [](\A p \in Procs :
            PlainFlip(p) =>
               /\ res[p].path = "noflap" /\ res[p].cas = "commit"
               /\ res[p].engine = EdgeTriggeredForward
               /\ AllIdle => EdgeOf(p).LastValue = res[p].newVal
               /\ res[p].denied # "target" =>
                     /\ res[p].action = EdgeTriggeredForward /\ res[p].pubs = 1
                     /\ published # <<>>
                     /\ published[Len(published)].kind = "payload"
                     /\ published[Len(published)].body = res[p].payload)
    /\ [][(cfg["t1"].Trigger.Flapping = NoFlap /\ published' # published) =>
            \E p \in Procs :
               /\ pc[p] = "publish" /\ pc'[p] = "idle"
               /\ Len(published') = Len(published) + 1
               /\ SubSeq(published', 1, Len(published)) = published
               /\ published'[Len(published')].body = call[p].payload]_vars

\* A, B, A, B, C sent one after the other: five forwards, published in that order
C17_Witness ==
    /\ AllIdle /\ PlainFlip("p1")
    /\ cfg["t1"].Trigger.Target.SNSRPM = 0
    /\ TypesOf(published) = <<"a", "b", "a", "b", "c">>
    /\ res["p1"].obs = 5 /\ res["p1"].engine = EdgeTriggeredForward

\* the request came without tenant_id or credential, for a tenant that has no
\* configuration, or with another credential than the tenant's secret_key
BadCaller(c) ==
    \/ c.tenant = "" \/ c.clientKey = ""
    \/ c.tenant \notin DOMAIN cfg
    \/ c.clientKey # cfg[c.tenant].ClientKey

\* C18: Authentication gate. A request whose tenant is unknown, whose
\* tenant_id or credential is empty, or whose credential differs from the
\* tenant's secret_key is answered Unauthorized, with no Acquire, no Load, no
\* UpsertCAS and no publish: the step that answers it leaves the rate
\* buckets, the edge states and the publisher's log as they were.
C18_AuthGate ==
    /\ [](\A p \in Procs :
            (res[p].op = "Run" /\ BadCaller(res[p])) =>
               /\ res[p].statusCode = StatusUnauthorized /\ res[p].err # ""
               /\ res[p].asked = {} /\ res[p].loads = 0
               /\ res[p].cas = "none" /\ res[p].pubs = 0)
    /\ [](\A p \in Procs :
            (pc[p] # "idle") => ~BadCaller(call[p]))
    /\ [][\A p \in Procs :
            (res'[p] # res[p] /\ BadCaller(res'[p])) =>
               (edges' = edges /\ buckets' = buckets /\ grants' = grants
                  /\ published' = published)]_vars

\* a wrong credential after the tenant's own requests used up the IP limit and
\* stored an edge state
C18_Witness ==
    \E p \in Procs :
       /\ res[p].op = "Run" /\ res[p].tenant = "t1" /\ res[p].clientKey = "badkey01"
       /\ res[p].err = "invalid credentials"
       /\ res[p].statusCode = StatusUnauthorized
       /\ edges # <<>> /\ buckets # <<>>

Publishing == {EdgeTriggeredForward, ForwardedAsIs, AggregateSent}

\* Run returned to the handler without error and with an action that is published
Emits(r) == r.err = "" /\ r.action \in Publishing

\* what the publisher is to receive for the result r
Emitted(r) ==
    [arn |-> cfg[r.tenant].Trigger.Target.SNSArn, tenant |-> r.tenant,
     kind |-> IF r.action = AggregateSent THEN "aggregate" ELSE "payload",
     body |-> IF r.action = AggregateSent THEN r.newPayload ELSE r.payload]

\* C19: Publish mapping. A request is published exactly once when Run ends
\* without error in EdgeTriggeredForward, ForwardedAsIs or AggregateSent, and
\* not at all otherwise (NoOp, SuppressFlapping, SuppressDedup, an error, a
\* limiter's denial); what is published is the original payload for the two
\* forwards and the engine's aggregate for AggregateSent, and the publisher's
\* log changes in no other step.
C19_PublishMapping ==
    /\ [](\A p \in Procs :
            res[p].op = "Run" =>
               /\ res[p].pubs = (IF Emits(res[p]) THEN 1 ELSE 0)
               /\ res[p].denied # "" => res[p].pubs = 0
               /\ res[p].action = AggregateSent =>
                     (res[p].engine = AggregateSent
                        /\ res[p].newPayload.type = "flap_aggregate"))
    /\ [][/\ \A p \in Procs :
               (pc[p] # "idle" /\ pc'[p] = "idle") =>
                  IF Emits(res'[p])
                    THEN published' = Append(published, Emitted(res'[p]))
                    ELSE published' = published
          /\ published' # published =>
               \E p \in Procs : pc[p] = "publish" /\ pc'[p] = "idle"]_vars

\* an aggregate was published after an original payload, and the last request
\* was suppressed and published nothing
C19_Witness ==
    \E p \in Procs :
       /\ res[p].op = "Run" /\ res[p].action = SuppressFlapping /\ res[p].pubs = 0
       /\ Len(published) = 2
       /\ published[1].kind = "payload" /\ published[2].kind = "aggregate"
       /\ published[2].body.type = "flap_aggregate"

----------------------------------------------------------------------------
(* Claims about the ClientStore, checked under SpecConfig *)

\* the invariants of a stored configuration
WellFormed(c) ==
    /\ StrLen(c.ClientID) >= ClientIDMinLength
    /\ c.ClientName # ""
    /\ StrLen(c.ClientKey) >= ClientKeyMinLength
    /\ c.IPRPM >= 0 /\ c.ClientRPM >= 0 /\ c.Trigger.Target.SNSRPM >= 0
    /\ c.Trigger.Flapping # NoFlap =>
          /\ c.Trigger.Flapping.WindowSeconds >= MinWindowSizeSeconds
          /\ c.Trigger.Flapping.SuppressBelow >= 0
          /\ c.Trigger.Flapping.SuppressBelow <= c.Trigger.Flapping.WindowSeconds

\* C20: Configuration validation. A put of a configuration that violates
\* tenant_id length >= 4, a display_name that is not empty, secret_key length
\* >= 8, ip_rpm >= 0, tenant_rpm >= 0, target_rpm >= 0 or, with flapping
\* present, window_seconds >= 10 and 0 <= suppress_below <= window_seconds, is
\* rejected; every stored configuration, and every configuration that a get
\* returns, meets all of them after any sequence of puts and deletes.
C20_ConfigValidation ==
    /\ \A id \in DOMAIN cfg : WellFormed(cfg[id])
    /\ (res["p1"].op = "PutClientConfig" /\ ~WellFormed(res["p1"].config)) =>
          res["p1"].err # ""
    /\ (res["p1"].op = "GetClientConfig" /\ res["p1"].err = "") =>
          WellFormed(res["p1"].config)

----------------------------------------------------------------------------
(* Claims about the configuration cache, checked under SpecCache *)

LastLoad == res["p1"]

Loaded == LastLoad.op = "LoadCachedClientConfig"

\* C21: Config cache expiry. LoadCachedClientConfig answers from the cache
\* exactly while no more than 300 s have passed since the entry was cached; past
\* that the entry counts as absent, the lookup reads the ConfigStore and, when
\* the tenant is there, caches it again for 300 s. So a lookup more than 300 s
\* after the last put or delete gives what the store holds, and a lookup before
\* that may give the old configuration, which is the one the credential is
\* checked against.
C21_CacheExpiry ==
    Loaded =>
       /\ LastLoad.hit = (LastLoad.cachedAt >= 0
                            /\ LastLoad.t - LastLoad.cachedAt <= ConfigTTLSeconds)
       /\ ~LastLoad.hit =>
             /\ LastLoad.config = LastLoad.stored
             /\ (LastLoad.err # "") = (LastLoad.stored = <<>>)
             /\ LastLoad.err = "" =>
                   cfgCache[LastLoad.clientID] =
                      [val |-> LastLoad.stored, exp |-> LastLoad.t + ConfigTTLSeconds]
       /\ LastLoad.t - LastLoad.changed > ConfigTTLSeconds =>
             LastLoad.config = LastLoad.stored
       /\ LastLoad.err = "" =>
             (LastLoad.statusCode = StatusUnauthorized)
                = (LastLoad.clientKey # LastLoad.config.ClientKey)
       /\ LastLoad.err # "" => LastLoad.statusCode = StatusUnauthorized

\* 300 s after it was cached, and 150 s after the secret_key was changed, the
\* old configuration is still returned and the old secret_key still accepted
C21_Witness ==
    /\ Loaded /\ LastLoad.hit
    /\ LastLoad.t - LastLoad.cachedAt = ConfigTTLSeconds
    /\ LastLoad.t - LastLoad.changed = 150
    /\ LastLoad.stored # <<>> /\ LastLoad.config # LastLoad.stored
    /\ LastLoad.clientKey = LastLoad.config.ClientKey
    /\ LastLoad.statusCode = StatusAccepted

----------------------------------------------------------------------------
(* Claims about the limiters of different tenants, checked under SpecSeq *)

\* the tenant whose request takes the step
Mover(p) ==
    IF pc[p] # "idle" THEN call[p].tenant
    ELSE IF pc'[p] # "idle" THEN call'[p].tenant
    ELSE res'[p].tenant

Moves(p) == pc'[p] # pc[p] \/ call'[p] # call[p] \/ res'[p] # res[p]

\* the step changes what is stored for the tenant: an edge state, or a bucket
\* of its tenant limit or of its target limit
Touches(tenant) ==
    \/ \E k \in DOMAIN edges' :
          k[1] = tenant /\ (k \notin DOMAIN edges \/ edges'[k] # edges[k])
    \/ \E bk \in DOMAIN buckets' :
          /\ bk[1][1] \in {"CLIENT", "TARGET"} /\ bk[1][2] = tenant
          /\ (bk \notin DOMAIN buckets \/ buckets'[bk] # buckets[bk])

\* C22: Limiter independence across tenants. With requests in turn inside one
\* minute, a tenant's request is turned down by the tenant limit exactly when
\* it is beyond the first tenant_rpm requests of that same tenant, whatever
\* other tenants sent; a tenant with ip_rpm = 0 never asks the IP limit and is
\* never turned down by it, also when another tenant filled the bucket of its
\* address; and a step of one tenant's request changes no edge state and no
\* tenant or target bucket of another tenant.
C22_LimiterIndependence ==
    /\ [](\A p \in Procs :
            Finished(p) =>
               LET r == res[p]
                   cc == cfg[r.tenant]
               IN /\ cc.IPRPM = 0 => ("ip" \notin r.asked /\ r.denied # "ip")
                  /\ cc.ClientRPM = 0 => "client" \notin r.asked
                  /\ (cc.IPRPM = 0 /\ cc.ClientRPM > 0) =>
                        /\ "client" \in r.asked
                        /\ (r.denied = "client") = (r.nth > cc.ClientRPM)
                        /\ r.denied # "client" => r.err = "")
    /\ [][\A tenant \in DOMAIN cfg :
            Touches(tenant) => \E p \in Procs : Moves(p) /\ Mover(p) = tenant]_vars

\* the other tenant's second request goes through after the first tenant used
\* up its own tenant limit and filled the IP bucket of the address they share
C22_Witness ==
    \E p \in Procs :
       /\ Finished(p) /\ res[p].tenant = OtherTenant
       /\ res[p].nth = 2 /\ res[p].err = "" /\ res[p].action = EdgeTriggeredForward
       /\ "t1" \in DOMAIN hist.sent /\ hist.sent["t1"] >= 3
       /\ BucketKey(<<"IP", "ip1">>, now) \in DOMAIN buckets
       /\ buckets[BucketKey(<<"IP", "ip1">>, now)] = 2
       /\ buckets[BucketKey(<<"CLIENT", "t1">>, now)] = 1

----------------------------------------------------------------------------
(* Further claims about the engine and the pipeline *)

Min(a, b) == IF a < b THEN a ELSE b

\* C23: Aggregate size. An aggregate built from n buffered flips with
\* k = aggregate_max_items carries all n flips in recent when k = 0 and exactly
\* min(k, n) flips when k > 0.
C23_AggregateSize ==
    \A p \in Procs :
       (Evaluated(p) /\ res[p].engine = AggregateSent) =>
          LET k == Flapping(p).AggregateMaxItems
              n == res[p].nrecent
          IN Len(res[p].newPayload.recent) = (IF k = 0 THEN n ELSE Min(k, n))

\* the expression selects the boolean true; null, any other value and an
\* evaluation error count as false
EvalBool(expression, payload) ==
    LET m == EvalAny(expression, payload) IN
    ~m.err /\ m.v = JBool(TRUE)

\* C24: Pass-through decision. With passthrough.expr not empty, a request that
\* passed the IP and tenant limits is forwarded as-is exactly when
\* eval_bool(expr, payload) XOR negate is true, where null, a non-boolean and
\* an evaluation error count as false, so that with negate such a payload is
\* passed through.
C24_PassthroughDecision ==
    \A p \in Procs :
       (Finished(p) /\ res[p].denied \notin {"ip", "client"}
          /\ cfg[res[p].tenant].Passthrough.FieldExpr # "") =>
          LET r == cfg[res[p].tenant].Passthrough IN
          /\ res[p].pt = (EvalBool(r.FieldExpr, res[p].payload) # r.Negate)
          /\ res[p].pt = (res[p].action = ForwardedAsIs)

TargetRPM(p) == cfg[res[p].tenant].Trigger.Target.SNSRPM

\* the step changes a bucket of a target limit
TargetSlotTaken ==
    \E bk \in DOMAIN buckets' :
       /\ bk[1][1] = "TARGET"
       /\ bk \notin DOMAIN buckets \/ buckets'[bk] # buckets[bk]

\* C25: Target limiter guard. The target limit is asked only for a request
\* whose engine action is EdgeTriggeredForward or AggregateSent, and only with
\* target_rpm > 0; with target_rpm = 0 a forward or an aggregate keeps its
\* action and status 202; and only a request with one of these two engine
\* actions ever takes a slot of a "TARGET:" bucket, never one that ends in
\* NoOp, SuppressFlapping or ForwardedAsIs without having been demoted.
C25_TargetGuard ==
    /\ [](\A p \in Procs :
            Finished(p) =>
               /\ ("target" \in res[p].asked) =
                     (res[p].engine \in Forwards /\ TargetRPM(p) > 0)
               /\ (res[p].engine \in Forwards /\ TargetRPM(p) = 0) =>
                     /\ res[p].action = res[p].engine
                     /\ res[p].statusCode = StatusAccepted /\ res[p].err = ""
                     /\ res[p].denied = "")
    /\ [][TargetSlotTaken =>
            \E p \in Procs :
               /\ pc[p] \in {"target", "acqIncr"} /\ call[p].lim = "target"
               /\ call[p].engine \in Forwards
               /\ cfg[call[p].tenant].Trigger.Target.SNSRPM > 0
               /\ pc'[p] \in {"idle", "publish"}]_vars

\* target_rpm = 1: a stable request after the forward that took the slot does
\* not ask the target limit
C25_Witness ==
    \E p \in Procs :
       /\ Finished(p) /\ TargetRPM(p) = 1
       /\ res[p].engine = NoOp /\ res[p].path = "stable"
       /\ "target" \notin res[p].asked
       /\ \E bk \in DOMAIN buckets : bk[1][1] = "TARGET" /\ buckets[bk] = 1

\* the flip that the request observed is in the stored recent
FlipBuffered(p) ==
    \E i \in 1 .. Len(EdgeOf(p).Recent) :
       /\ EdgeOf(p).Recent[i].To = res[p].newVal
       /\ EdgeOf(p).Recent[i].From = res[p].from
       /\ EdgeOf(p).Recent[i].At = res[p].t

\* C26: Target-denied events stay buffered. When the target limit denies a
\* request whose flip the engine committed, be the engine's action
\* EdgeTriggeredForward or AggregateSent, the flip of that request is still in
\* the recent of the stored state, for a later aggregate to carry.
C26_DeniedStaysBuffered ==
    \A p \in Procs :
       (Evaluated(p) /\ AllIdle /\ res[p].denied = "target"
          /\ res[p].cas = "commit" /\ res[p].from # "(none)") =>
          FlipBuffered(p)

\* the step in which the request of p returns from an UpsertCAS that did not
\* commit
CasMissed(p) ==
    /\ pc[p] \in {"cas", "casWrite"}
    /\ pc'[p] = "idle"
    /\ res'[p].cas = "miss"

AfterLoad(p) == IF pc'[p] = "idle" THEN res'[p] ELSE call'[p]

\* the step in which the engine of p loads a last_value equal to the new value
LoadsSameValue(p) ==
    /\ pc[p] = "load"
    /\ pc'[p] # "load"
    /\ AfterLoad(p).from = AfterLoad(p).newVal

\* C29: Stable observation is read-only. When the loaded last_value equals the
\* new value the engine returns NoOp at once and calls no UpsertCAS: the
\* request ends with NoOp and status 202 and every stored edge state, its
\* version included, is unchanged, also when the window has expired.
C29_StableReadOnly ==
    [][\A p \in Procs :
         LoadsSameValue(p) =>
            /\ pc'[p] = "idle"
            /\ res'[p].path = "stable"
            /\ res'[p].action = NoOp
            /\ res'[p].cas = "none"
            /\ res'[p].err = ""
            /\ res'[p].statusCode = StatusAccepted
            /\ edges' = edges]_vars

\* a stable observation after the window expired, with flips still counted
C29_Witness ==
    \E p \in Procs :
       /\ res[p].op = "Run"
       /\ res[p].path = "stable"
       /\ LET cc == cfg[res[p].tenant]
              k == <<res[p].tenant, ScopeKeyOf(cc)>>
          IN /\ cc.Trigger.Flapping # NoFlap
             /\ k \in DOMAIN edges
             /\ res[p].t - edges[k].WindowStart > cc.Trigger.Flapping.WindowSeconds
             /\ edges[k].FlipCount > 0
             /\ edges[k].WindowStart = res[p].ws

\* the request that p carries through the step
Carried(p) == IF pc[p] # "idle" THEN call[p]
              ELSE IF pc'[p] # "idle" THEN call'[p] ELSE res'[p]

\* the request of p came to the trigger expression and it gave no value
NoTriggerValue(p) ==
    /\ Finished(p)
    /\ res[p].denied = ""
    /\ ~res[p].pt
    /\ cfg[res[p].tenant].Trigger.FieldExpr # ""
    /\ res[p].payload.type = JNull

\* C30: No-value trigger. A request whose non-empty trigger expression gives
\* null (or a missing path) skips the engine: NoOp with status 202, no Load,
\* no UpsertCAS, no call of the target limit, nothing published, and no step
\* of the request changes a stored edge state; an edge state exists only for
\* a scope that some request with a trigger value has evaluated.
C30_NoValueTrigger ==
    /\ [](\A p \in Procs :
            NoTriggerValue(p) =>
               /\ res[p].action = NoOp
               /\ res[p].statusCode = StatusAccepted
               /\ res[p].err = ""
               /\ res[p].path = "none"
               /\ res[p].loads = 0
               /\ res[p].cas = "none"
               /\ "target" \notin res[p].asked
               /\ res[p].pubs = 0)
    /\ [](\A k \in DOMAIN edges : k \in DOMAIN hist.obs /\ hist.obs[k] >= 1)
    /\ [][\A p \in Procs :
            (Moves(p) /\ Carried(p).payload.type = JNull) => edges' = edges]_vars

\* under a target limit, a request without a trigger value ended while an
\* edge state of the scope is stored
C30_Witness ==
    \E p \in Procs :
       /\ NoTriggerValue(p)
       /\ cfg[res[p].tenant].Trigger.Target.SNSRPM > 0
       /\ <<res[p].tenant, ScopeKeyOf(cfg[res[p].tenant])>> \in DOMAIN edges

\* the step in which the engine of p builds an aggregate
AggregateBuilt(p) ==
    /\ pc[p] = "load"
    /\ pc'[p] = "cas"
    /\ call'[p].dec.path = "aggregate"

\* state.recent as BuildAggregate gets it: what Load returned and the new flip
SeenRecent(p) ==
    LET c == call'[p]
        k == <<c.tenant, ScopeKeyOf(cfg[c.tenant])>>
    IN AppendRecent(edges[k].Recent,
                    [At |-> c.t, From |-> c.from, To |-> c.newVal,
                     Payload |-> EncodePayload(c.payload)],
                    HardLimitRecentItems)

ItemOf(it) == [at |-> it.At, from |-> it.From, to |-> it.To,
               payload |-> DecodePayload(it.Payload)]

\* C32: Aggregate item order. The recent array of an aggregate consists of the
\* last flips of state.recent in the stored order, oldest first and newest
\* last.
C32_AggregateOrder ==
    [][\A p \in Procs :
         AggregateBuilt(p) =>
            LET r == SeenRecent(p)
                items == call'[p].dec.agg.recent
                m == Len(items)
            IN \A i \in 1 .. m : items[i] = ItemOf(r[Len(r) - m + i])]_vars

\* C32, as the code has it: the recent array of an aggregate with m items
\* consists of the last m flips of state.recent in the reverse of the stored
\* order, newest first and oldest last.
C32_AggregateNewestFirst ==
    [][\A p \in Procs :
         AggregateBuilt(p) =>
            LET r == SeenRecent(p)
                items == call'[p].dec.agg.recent
                m == Len(items)
            IN /\ m <= Len(r)
               /\ \A i \in 1 .. m : items[i] = ItemOf(r[Len(r) - i + 1])]_vars

\* an aggregate of two items out of three buffered flips was published
C32_Witness ==
    \E p \in Procs :
       /\ res[p].op = "Run"
       /\ res[p].action = AggregateSent
       /\ res[p].pubs = 1
       /\ res[p].nrecent = 3
       /\ Len(res[p].newPayload.recent) = 2
       /\ res[p].newPayload.recent[1] # res[p].newPayload.recent[2]

----------------------------------------------------------------------------
(* Claims about the DataStore, checked under SpecStore *)

\* scopes whose names end like the window part of a key, and epoch minutes of
\* one, two and three digits
NamedScopes == {<<"x">>, <<"x", "_">>, <<"x", "_", "1">>, <<"x", "_", "1", "_">>,
                <<"x", "_", "1", "2">>, <<"x", "#", "1">>, <<"1">>}
NamedMinutes == {0, 1, 2, 12, 112}

\* C33: Fixed-window independence. Acquire counts against the bucket (scope,
\* floor(now/60)): the count of a bucket is the number of Acquire calls that
\* were granted on it, so a denied call leaves it alone; a step changes at
\* most one bucket, by one; a call with a capacity is denied only when the
\* bucket of its own scope and minute is full, whatever was granted in the
\* minute before; and two different (scope, minute) pairs never have the same
\* key in either backend.
C33_WindowIndependence ==
    /\ [](/\ DOMAIN buckets = DOMAIN grants
          /\ \A bk \in DOMAIN buckets : buckets[bk] = grants[bk])
    /\ [][\A bk \in DOMAIN buckets' :
            (bk \notin DOMAIN buckets \/ buckets'[bk] # buckets[bk]) =>
               /\ buckets'[bk] = (IF bk \in DOMAIN buckets THEN buckets[bk] ELSE 0) + 1
               /\ \A b2 \in DOMAIN buckets' \ {bk} :
                     b2 \in DOMAIN buckets /\ buckets'[b2] = buckets[b2]
               /\ \E p \in Procs : /\ res'[p].op = "Acquire"
                                   /\ res'[p].ok
                                   /\ res'[p].bk = bk
                                   /\ res'[p].scope = bk[1]]_vars
    /\ [][\A p \in Procs :
            (/\ res'[p] # res[p]
             /\ res'[p].op = "Acquire"
             /\ ~res'[p].ok
             /\ res'[p].cap > 0) =>
               /\ res'[p].bk = BucketKey(res'[p].scope, now)
               /\ res'[p].bk \in DOMAIN buckets
               /\ buckets[res'[p].bk] >= res'[p].cap
               /\ buckets' = buckets]_vars
    /\ \A s1, s2 \in NamedScopes, m1, m2 \in NamedMinutes :
          (s1 # s2 \/ m1 # m2) =>
             /\ getWindowKeyName(s1, m1) # getWindowKeyName(s2, m2)
             /\ DdbRateKey(s1, m1) # DdbRateKey(s2, m2)

\* a scope used up its minute, was denied, and was granted again in the
\* next minute
C33_Witness ==
    /\ <<"x1", 0>> \in DOMAIN grants
    /\ <<"x1", 1>> \in DOMAIN grants
    /\ grants[<<"x1", 0>>] = 1
    /\ grants[<<"x1", 1>>] = 1
    /\ \E p \in Procs : /\ res[p].op = "Acquire"
                        /\ ~res[p].ok
                        /\ res[p].bk = <<"x1", 0>>

----------------------------------------------------------------------------
(* Claims about the two DataStores side by side, checked under SpecBoth *)

\* what Load returned, without the Version field of the state, which a
\* caller must not use
Observed(r) == [r EXCEPT !.state.Version = 0]

\* C34: Backend equivalence. For one caller that makes the same Load,
\* UpsertCAS and Acquire calls one after the other on both stores, with the
\* same clock, every call returns the same result (state, version, committed,
\* granted) on the Redis store as on the DynamoDB store.
C34_BackendEquivalence ==
    /\ res["p1"].op = "Load" =>
          Observed(res["p1"].ddb) = Observed(res["p1"].redis)
    /\ res["p1"].op \in {"UpsertCAS", "Acquire"} =>
          res["p1"].ddb = res["p1"].redis

----------------------------------------------------------------------------
(* Claims about the work of one request, checked under SpecLive *)

\* the request that p serves or has served last
Request(p) == IF pc[p] # "idle" THEN call[p] ELSE res[p]

\* C35: Bounded work per request. A request makes at most three Acquire
\* calls and evaluates the engine (Load and decision) at most twice, and
\* under any interleaving of overlapping requests on one scope every request
\* that was started ends, with an action or an error.
C35_BoundedWork ==
    /\ [](\A p \in Procs :
            Request(p).op = "Run" =>
               /\ Request(p).acqs <= 3
               /\ Request(p).loads <= 2)
    /\ \A p \in Procs : (pc[p] # "idle") ~> (pc[p] = "idle")
    /\ [](\A p \in Procs :
            (pc[p] = "idle" /\ res[p].op = "Run") =>
               (res[p].err # "" \/ res[p].action \in
                   {NoOp, SuppressFlapping, EdgeTriggeredForward, ForwardedAsIs,
                    AggregateSent}))

\* a request went through all three limits while another one lost its
\* UpsertCAS
C35_Witness ==
    \E p, q \in Procs :
       /\ res[p].op = "Run"
       /\ res[p].acqs = 3
       /\ res[p].loads = 1
       /\ res[q].op = "Run"
       /\ res[q].cas = "miss"

----------------------------------------------------------------------------
(* Claims about the flips of the aggregates, checked under SpecAgg *)

\* the positions of the aggregates in the publisher's log
Aggregates == {i \in 1 .. Len(published) : published[i].kind = "aggregate"}

\* the serial numbers of the flips that the aggregate at position i lists
FlipsOf(i) ==
    {published[i].body.recent[j].payload.id :
        j \in 1 .. Len(published[i].body.recent)}

\* C36: No flip is aggregated twice. Over any sequence of requests on one
\* (tenant, scope), a flip is listed in the recent array of at most one
\* published aggregate, and once in it.
C36_NoFlipTwice ==
    /\ \A i, j \in Aggregates : i # j => FlipsOf(i) \cap FlipsOf(j) = {}
    /\ \A i \in Aggregates :
          Cardinality(FlipsOf(i)) = Len(published[i].body.recent)

\* two aggregates were published, the second one with two flips
C36_Witness ==
    \E i, j \in Aggregates :
       /\ i < j
       /\ FlipsOf(i) # {}
       /\ Len(published[j].body.recent) = 2

\* tenant names and scope keys whose texts end and begin like the fixed parts
\* of a key
NamedClients == {<<"x">>, <<"x", "_s">>, <<"x", "_s", "e", "1">>, <<"x", "#">>,
                 <<"x", "_">>}
NamedScopeKeys == {<<"e">> \o Decimal(h) : h \in {1, 2, 12}}

\* C37: Scope isolation of edge state. A request for tenant T with trigger
\* expression E loads and writes only the record of (T, ComputeKey(E)): no
\* step of it changes the record or version of another (tenant, scope_key)
\* pair; the scope_key of every stored record is the key it is stored under;
\* and different (tenant, scope_key) pairs have different keys in both
\* backends.
C37_ScopeIsolation ==
    /\ [](\A k \in DOMAIN edges : edges[k].ScopeKey = k[2])
    /\ [](\A p \in Procs :
            (res[p].op = "Run" /\ res[p].path # "none") =>
               /\ <<res[p].tenant, ComputeKey(cfg[res[p].tenant].Trigger.FieldExpr)>>
                     \in DOMAIN edges
               /\ res[p].loads = 1)
    /\ [][\A p \in Procs :
            Moves(p) =>
               LET own == IF Mover(p) \in DOMAIN cfg
                            THEN {<<Mover(p),
                                    ComputeKey(cfg[Mover(p)].Trigger.FieldExpr)>>}
                            ELSE {}
               IN /\ DOMAIN edges' \subseteq DOMAIN edges \cup own
                  /\ \A k \in DOMAIN edges \ own :
                        k \in DOMAIN edges' /\ edges'[k] = edges[k]]_vars
    /\ \A c1, c2 \in NamedClients, k1, k2 \in NamedScopeKeys :
          (c1 # c2 \/ k1 # k2) =>
             /\ getDataKeyName(c1, k1) # getDataKeyName(c2, k2)
             /\ DdbEdgeKey(c1, k1) # DdbEdgeKey(c2, k2)

\* two tenants with different trigger expressions and a third record: each
\* has its own edge state, and the last request changed only its own
C37_Witness ==
    /\ scn = "scopes"
    /\ Cardinality(DOMAIN edges) = 2
    /\ \E p \in Procs : /\ res[p].op = "Run"
                        /\ res[p].tenant = OtherTenant
                        /\ res[p].cas = "commit"
                        /\ res[p].obs >= 2

\* the scopes of the tenants that have a flap configuration
FlapScopes == {k \in DOMAIN edges : cfg[k[1]].Trigger.Flapping # NoFlap}

\* C38: Buffered flips never exceed counted flips. For a scope processed under
\* one flap configuration from its first observation on, every committed edge
\* state has 0 <= len(recent) <= flip_count, and flip_count >= 1 once a flip
\* was committed.
C38_RecentWithinCount ==
    \A k \in FlapScopes :
       /\ Len(edges[k].Recent) <= edges[k].FlipCount
       /\ edges[k].FlipCount >= 0
       /\ edges[k].Version >= 2 => edges[k].FlipCount >= 1

\* a flip opened a new window after flips of the window before were buffered
C38_Witness ==
    \E k \in FlapScopes :
       /\ edges[k].Version >= 4
       /\ edges[k].WindowStart > 1
       /\ edges[k].FlipCount = 1
       /\ Len(edges[k].Recent) = 1

----------------------------------------------------------------------------
(* Overlapping requests to tenants that have an IP limit and a tenant limit, *)
(* and a pass-through rule, a suppression threshold, a target limit or a     *)
(* trigger expression that does not parse.                                   *)

FixturesLimits == {"three", "badexpr", "limsup"}

InitLimits ==
    /\ backend \in Backends
    /\ seq = FALSE
    /\ scn \in FixturesLimits
    /\ cfg = StoreOf(scn)
    /\ cfgCache = <<>>
    /\ now = 1
    /\ edges = <<>>
    /\ buckets = <<>>
    /\ pc = [p \in Procs |-> "idle"]
    /\ call = [p \in Procs |-> NoCall]
    /\ res = [p \in Procs |-> NoRes]
    /\ grants = <<>>
    /\ nops = 0
    /\ hist = NoHist
    /\ published = <<>>

SpecLimits == InitLimits /\ [][Next]_vars

\* the limits of Run's first part that the tenant of request r has
EntryLimits(r) ==
    (IF cfg[r.tenant].IPRPM > 0 THEN {"ip"} ELSE {})
      \cup (IF cfg[r.tenant].ClientRPM > 0 THEN {"client"} ELSE {})

\* request r took a slot of each limit of Run's first part, once
SlotsTaken(r) ==
    /\ EntryLimits(r) \subseteq r.asked
    /\ r.denied \notin EntryLimits(r)
    /\ r.acqs = Cardinality(r.asked)

\* request r is past Run's first part: at the engine, the target limit or the
\* publish, or back with a pass-through, an engine action or an evaluation
\* error
PastLimits(q) ==
    \/ pc[q] \in {"load", "cas", "casWrite", "target", "publish"}
    \/ pc[q] = "acqIncr" /\ call[q].lim = "target"
    \/ /\ pc[q] = "idle" /\ Finished(q)
       /\ res[q].err \notin {"rate limit (ip)", "rate limit (client)"}

\* the record of the request of q
Rec(q) == IF pc[q] = "idle" THEN res[q] ELSE call[q]

CommitsAggregate(k) ==
    \E p \in Procs :
       /\ pc[p] \in {"cas", "casWrite"}
       /\ pc'[p] \notin {"cas", "casWrite"}
       /\ call[p].dec.path = "aggregate"
       /\ k = <<call[p].tenant, ScopeKeyOf(cfg[call[p].tenant])>>
       /\ (IF pc'[p] = "idle" THEN res'[p] ELSE call'[p]).engine = AggregateSent
       /\ (IF pc'[p] = "idle" THEN res'[p] ELSE call'[p]).cas = "commit"

\* C40: Cooldown deadline is monotone. Under a clock that does not go back and
\* aggregate_cooldown_seconds >= 0, the agg_until_ts of a scope never
\* decreases from one committed state to the next and changes only when an
\* AggregateSent transition is committed, and window_start <= last_change_ts
\* in every committed state.
C40_CooldownMonotone ==
    /\ [](\A k \in DOMAIN edges : edges[k].WindowStart <= edges[k].LastChangeTS)
    /\ [][\A k \in DOMAIN edges' :
            IF k \in DOMAIN edges
              THEN /\ edges'[k].AggUntilTS >= edges[k].AggUntilTS
                   /\ edges'[k].AggUntilTS # edges[k].AggUntilTS => CommitsAggregate(k)
              ELSE edges'[k].AggUntilTS = 0]_vars

----------------------------------------------------------------------------
(* Claims about storage errors, checked under SpecFault *)

\* C27: Storage errors. A request one of whose DataStore calls returned an
\* error (Acquire of the IP, tenant or target limit, Load, or UpsertCAS on any
\* path of the engine, suppress-below included) ends with an error and status
\* 500, never with status 202 or an action of its own, and is not published.
C27_StorageErrors ==
    \A p \in Procs :
       (res[p].op = "Run" /\ res[p].fault # "") =>
          /\ res[p].err # ""
          /\ res[p].statusCode = StatusInternalServerError
          /\ res[p].pubs = 0

----------------------------------------------------------------------------
(* Claims about the buffer of recent flips, checked under SpecLong *)

\* the step commits an edge state of the scope k
Commits(k) ==
    /\ k \in DOMAIN edges'
    /\ (k \notin DOMAIN edges \/ edges'[k] # edges[k])

\* C31: Recent buffer cap. Every committed edge state holds at most 128 recent
\* flips, with or without a flap configuration; a flip committed on a full
\* buffer drops the oldest flip, keeps the others in their order and comes
\* last.
C31_RecentCap ==
    /\ [](\A k \in DOMAIN edges : Len(edges[k].Recent) <= HardLimitRecentItems)
    /\ [][\A k \in DOMAIN edges :
            (Commits(k) /\ Len(edges[k].Recent) = HardLimitRecentItems) =>
               LET old == edges[k].Recent
                   new == edges'[k].Recent
               IN /\ Len(new) = HardLimitRecentItems
                  /\ \A i \in 1 .. HardLimitRecentItems - 1 : new[i] = old[i + 1]
                  /\ new[HardLimitRecentItems].At = edges'[k].LastChangeTS
                  /\ new[HardLimitRecentItems].From = edges[k].LastValue
                  /\ new[HardLimitRecentItems].To = edges'[k].LastValue]_vars

\* the scope has committed more flips than the buffer holds
C31_Witness ==
    \E k \in DOMAIN edges :
       /\ Len(edges[k].Recent) = HardLimitRecentItems
       /\ edges[k].Version > HardLimitRecentItems + 2

====
